---- MODULE Spec2Model ----
(***************************************************************************)
(* Model of the Day 5 "Print Queue" solution (src/day05/src/lib.rs):       *)
(* the two sequence validators, the middle-page extractor, the parser and  *)
(* the two top-level solvers.                                              *)
(*                                                                         *)
(* Conventions.  A Rust slice or Vec is a TLA+ sequence; Rust index i is   *)
(* TLA+ position i + 1, and the position maps hold Rust (0-based) indices. *)
(* A &str is a sequence of one-character strings.  A Result is a record    *)
(* with a tag "Ok" or "Err"; an Err carries the kind of the error and its  *)
(* message in three parts: msg, the fixed text; line, the line that        *)
(* format! puts after it, if any; end, the text after that line, if any.   *)
(* The message is msg, then line, then end.  A call that panics is a       *)
(* record with the tag "Panic" and the message of the panic; a function    *)
(* whose arithmetic can overflow takes the build's overflow_checks setting *)
(* as its last argument and returns Ok(value) when it returns.             *)
(***************************************************************************)
EXTENDS Integers, Sequences, FiniteSets, TLC

VARIABLES
    pc,          \* position of the driver that calls the functions
    sequence,    \* the `sequence` argument of the validators / get_middle_page
    rules,       \* the `rules` argument of the validators
    ret_valid,   \* what is_valid_sequence returned
    ret_naive,   \* what is_valid_sequence_naive returned
    ret_middle,  \* what get_middle_page returned
    input,       \* the `input` text of parse_input and of the solvers
    ret_parse,   \* what parse_input returned
    ret_solve,   \* what solve_part1 returned
    ret_solve_naive,  \* what solve_part1_naive returned
    ret_solve_part2,        \* Day 1: what solve_part2 returned
    ret_solve_part2_naive,  \* Day 1: what solve_part2_naive returned
    report,                 \* Day 2: the `report` argument of the safety checks
    ret_safe,               \* Day 2: what is_safe returned
    ret_safe_functional,    \* Day 2: what is_safe_functional returned
    ret_dampener,           \* Day 2: what is_safe_with_dampener returned
    ret_count,              \* Day 2: what solve_part1 returned
    ret_count_functional,   \* Day 2: what solve_part1_functional returned
    ret_count_dampener,     \* Day 2: what solve_part2 returned
    unscanned,              \* Day 3: the part of the memory not yet scanned
    enabled,                \* Day 3: the `enabled` flag of the scan
    instructions,           \* Day 3: the `instructions` vector of the scan
    seen,                   \* Day 3: the matches the scan has gone through
    ret_extract,            \* Day 3: what extract_enabled_mul_instructions returned
    ret_mul,                \* Day 3: what extract_mul_instructions returned
    ret_enabled_mul,        \* Day 3: what extract_enabled_mul_instructions returned (whole call)
    ret_sum,                \* Day 3: what solve_part1 returned
    ret_sum_enabled,        \* Day 3: what solve_part2 returned
    grid,                   \* Day 4: the `grid` argument
    start_row,              \* Day 4: the row argument (start_row / center_row), four words
    start_col,              \* Day 4: the column argument (start_col / center_col)
    row_delta,              \* Day 4: the `row_delta` argument of check_direction
    col_delta,              \* Day 4: the `col_delta` argument of check_direction
    ret_check,              \* Day 4: what check_direction returned
    ret_xmas,               \* Day 4: what is_xmas_pattern returned
    loop_first_pos,         \* is_valid_sequence, step by step: `first_pos`
    loop_last_pos,          \* is_valid_sequence, step by step: `last_pos`
    loop_i,                 \* number of sequence elements the loop has processed
    rule_i,                 \* number of rules `all` has gone through
    steps,                  \* number of steps taken (map updates and comparisons)
    ret_loop                \* what the stepped is_valid_sequence returned

validVars == <<sequence, rules, ret_valid, ret_naive, ret_middle>>

textVars == <<input, ret_parse, ret_solve, ret_solve_naive>>

day01Vars == <<ret_solve_part2, ret_solve_part2_naive>>

day02Vars == <<report, ret_safe, ret_safe_functional, ret_dampener, ret_count,
               ret_count_functional, ret_count_dampener>>

day03Vars == <<unscanned, enabled, instructions, seen, ret_extract>>

day03SolveVars == <<ret_mul, ret_enabled_mul, ret_sum, ret_sum_enabled>>

day04Vars == <<grid, start_row, start_col, row_delta, col_delta, ret_check,
               ret_xmas>>

loopVars == <<loop_first_pos, loop_last_pos, loop_i, rule_i, steps, ret_loop>>

vars == <<pc, validVars, textVars, day01Vars, day02Vars, day03Vars,
          day03SolveVars, day04Vars, loopVars>>

-----------------------------------------------------------------------------
(* Bounds of the model *)

MaxPage == 2
MaxSeqLen == 4
MaxRules == 2
MaxPieces == 5
MaxRuleLines == 2
MaxSeqTokens == 3

Pages == 1..MaxPage

SeqsUpTo(S, n) == UNION {[1..k -> S] : k \in 0..n}

-----------------------------------------------------------------------------
(* Results *)

NoLine == <<>>

Ok(v) ==
    [tag |-> "Ok", val |-> v, kind |-> "", msg |-> "", line |-> NoLine, end |-> ""]

\* An error whose message is m followed by the line l
Err(k, m, l) ==
    [tag |-> "Err", val |-> 0, kind |-> k, msg |-> m, line |-> l, end |-> ""]

\* An error whose message is m, the line l and then e
ErrAround(k, m, l, e) ==
    [tag |-> "Err", val |-> 0, kind |-> k, msg |-> m, line |-> l, end |-> e]

Unset ==
    [tag |-> "Unset", val |-> 0, kind |-> "", msg |-> "", line |-> NoLine, end |-> ""]

IsOk(r) == r.tag = "Ok"

IsErr(r) == r.tag = "Err"

Panic(m) ==
    [tag |-> "Panic", val |-> 0, kind |-> "panic", msg |-> m, line |-> NoLine, end |-> ""]

IsPanic(r) == r.tag = "Panic"

-----------------------------------------------------------------------------
(* Machine integers.  An overflowing +, -, * or abs panics in a build with  *)
(* overflow checks (the dev and test profiles) and wraps modulo 2^32 in a    *)
(* build without (the release profile); overflow_checks says which build it *)
(* is.  The comparisons are written so that no step leaves the 32 bits in   *)
(* which the model checker computes.                                        *)

I32_MAX == 2147483647

I32_MIN == -I32_MAX - 1

\* a + b of i32
i32_add(a, b, overflow_checks) ==
    IF b > 0 /\ a > I32_MAX - b
    THEN IF overflow_checks THEN Panic("attempt to add with overflow")
         ELSE Ok((a - I32_MAX - 1) + (b - I32_MAX - 1))
    ELSE IF b < 0 /\ a < I32_MIN - b
    THEN IF overflow_checks THEN Panic("attempt to add with overflow")
         ELSE Ok((a + I32_MAX + 1) + (b + I32_MAX + 1))
    ELSE Ok(a + b)

\* a - b of i32
i32_sub(a, b, overflow_checks) ==
    IF b < 0 /\ a > I32_MAX + b
    THEN IF overflow_checks THEN Panic("attempt to subtract with overflow")
         ELSE Ok((a - I32_MAX - 1) - (b + I32_MAX + 1))
    ELSE IF b > 0 /\ a < I32_MIN + b
    THEN IF overflow_checks THEN Panic("attempt to subtract with overflow")
         ELSE Ok((a + I32_MAX + 1) - (b - I32_MAX - 1))
    ELSE Ok(a - b)

\* i32::abs: -n for a negative n, which overflows for i32::MIN alone
i32_abs(n, overflow_checks) ==
    IF n = I32_MIN
    THEN IF overflow_checks THEN Panic("attempt to negate with overflow") ELSE Ok(I32_MIN)
    ELSE Ok(IF n < 0 THEN -n ELSE n)

\* a.wrapping_mul(b) for b >= 0, by b wrapping additions of a
RECURSIVE i32_wrapping_mul(_, _)
i32_wrapping_mul(a, b) ==
    IF b = 0 THEN 0 ELSE i32_add(i32_wrapping_mul(a, b - 1), a, FALSE).val

\* a * b of i32 for b >= 0 (b is a count): the product leaves i32 when a is
\* above i32::MAX / b or below i32::MIN / b
i32_mul(a, b, overflow_checks) ==
    IF /\ b > 1
       /\ \/ a > I32_MAX \div b
          \/ a < -(I32_MAX \div b) - (IF I32_MAX % b = b - 1 THEN 1 ELSE 0)
    THEN IF overflow_checks THEN Panic("attempt to multiply with overflow")
         ELSE Ok(i32_wrapping_mul(a, b))
    ELSE Ok(a * b)

\* A u32 in two parts, its top bit and its other 31 bits: the number is
\* top * 2^31 + low.  The parts of every u32 are numbers up to I32_MAX.
u32_parts(n) == IF n > I32_MAX THEN <<1, n - I32_MAX - 1>> ELSE <<0, n>>

\* The u32 of two parts
u32_of(parts) == IF parts[1] = 0 THEN parts[2] ELSE parts[2] + I32_MAX + 1

\* a + b of u32, on the parts of a and b: the low parts are added with a
\* carry into the top bits, and the sum leaves u32 when the top bits and the
\* carry make 2 or more
u32_add_parts(a, b, overflow_checks) ==
    LET carry == IF a[2] > I32_MAX - b[2] THEN 1 ELSE 0
        low == IF carry = 1 THEN a[2] - (I32_MAX - b[2]) - 1 ELSE a[2] + b[2]
        top == a[1] + b[1] + carry
    IN  IF top > 1
        THEN IF overflow_checks THEN Panic("attempt to add with overflow")
             ELSE Ok(<<top - 2, low>>)
        ELSE Ok(<<top, low>>)

\* a + b of u32
u32_add(a, b, overflow_checks) ==
    LET sum == u32_add_parts(u32_parts(a), u32_parts(b), overflow_checks)
    IN  IF IsPanic(sum) THEN sum ELSE Ok(u32_of(sum.val))

-----------------------------------------------------------------------------
(* is_valid_sequence: position maps, then one comparison per rule *)

EmptyMap == <<>>

\* first_pos after the loop has processed the first k elements:
\* entry(page).or_insert(i) keeps an index that is already there.
RECURSIVE first_pos_after(_, _)
first_pos_after(seq, k) ==
    IF k = 0 THEN EmptyMap
    ELSE LET m == first_pos_after(seq, k - 1)
             page == seq[k]
             i == k - 1
         IN  IF page \in DOMAIN m THEN m ELSE (page :> i) @@ m

\* last_pos after the loop has processed the first k elements:
\* insert(page, i) always overwrites.
RECURSIVE last_pos_after(_, _)
last_pos_after(seq, k) ==
    IF k = 0 THEN EmptyMap
    ELSE LET m == last_pos_after(seq, k - 1)
             page == seq[k]
             i == k - 1
         IN  (page :> i) @@ m

\* Mutant of rule_holds: compares the first occurrence of `before`.
rule_holds_first(first_pos, last_pos, rule) ==
    LET before == rule[1]
        after == rule[2]
    IN  IF before \in DOMAIN first_pos /\ after \in DOMAIN first_pos
        THEN first_pos[before] < first_pos[after]
        ELSE TRUE

\* Mutant of rule_holds: a rule with a page that is missing does not hold.
rule_holds_both_present(first_pos, last_pos, rule) ==
    LET before == rule[1]
        after == rule[2]
    IN  IF before \in DOMAIN last_pos /\ after \in DOMAIN first_pos
        THEN last_pos[before] < first_pos[after]
        ELSE FALSE

\* last_pos.get(&before).zip(first_pos.get(&after)).is_none_or(last < first)
rule_holds(first_pos, last_pos, rule) ==
    LET before == rule[1]
        after == rule[2]
    IN  IF before \in DOMAIN last_pos /\ after \in DOMAIN first_pos
        THEN last_pos[before] < first_pos[after]
        ELSE TRUE

\* Mutant of is_valid_sequence: only the first rule is checked.
is_valid_sequence_first_rule(seq, rs) ==
    LET first_pos == first_pos_after(seq, Len(seq))
        last_pos == last_pos_after(seq, Len(seq))
    IN  rs = <<>> \/ rule_holds(first_pos, last_pos, rs[1])

\* Mutant of is_valid_sequence: `any` in place of `all`.
is_valid_sequence_any(seq, rs) ==
    LET first_pos == first_pos_after(seq, Len(seq))
        last_pos == last_pos_after(seq, Len(seq))
    IN  \E r \in 1..Len(rs) : rule_holds(first_pos, last_pos, rs[r])

is_valid_sequence(seq, rs) ==
    LET first_pos == first_pos_after(seq, Len(seq))
        last_pos == last_pos_after(seq, Len(seq))
    IN  \A r \in 1..Len(rs) : rule_holds(first_pos, last_pos, rs[r])

-----------------------------------------------------------------------------
(* is_valid_sequence_naive: every pair of positions against every rule *)

\* tuple_combinations yields (seq[a], seq[b]) for every a < b, in order
tuple_combinations(seq) ==
    {<<a, b>> \in (1..Len(seq)) \X (1..Len(seq)) : a < b}

\* Mutant of is_valid_sequence_naive: the pair is compared the wrong way round.
is_valid_sequence_naive_swapped(seq, rs) ==
    \A ab \in tuple_combinations(seq) :
        LET i == seq[ab[1]]
            j == seq[ab[2]]
        IN  \A r \in 1..Len(rs) : rs[r][1] # i \/ rs[r][2] # j

\* Mutant of is_valid_sequence_naive: only neighbouring elements are compared.
is_valid_sequence_naive_adjacent(seq, rs) ==
    \A a \in 1..(Len(seq) - 1) :
        LET i == seq[a]
            j == seq[a + 1]
        IN  \A r \in 1..Len(rs) : rs[r][1] # j \/ rs[r][2] # i

is_valid_sequence_naive(seq, rs) ==
    \A ab \in tuple_combinations(seq) :
        LET i == seq[ab[1]]
            j == seq[ab[2]]
        IN  \A r \in 1..Len(rs) : rs[r][1] # j \/ rs[r][2] # i

-----------------------------------------------------------------------------
(* get_middle_page *)

EmptySequenceMsg == "Cannot get middle page of empty sequence"

\* Mutant of get_middle_page: the lower of the two middle elements.
get_middle_page_lower(seq) ==
    LET idx == IF Len(seq) = 0 THEN 0 ELSE (Len(seq) - 1) \div 2
    IN  IF idx < Len(seq)
        THEN Ok(seq[idx + 1])
        ELSE Err("EmptySequence", EmptySequenceMsg, NoLine)

\* Mutant of get_middle_page: a default value in place of the error.
get_middle_page_default(seq) ==
    LET idx == Len(seq) \div 2
    IN  IF idx < Len(seq) THEN Ok(seq[idx + 1]) ELSE Ok(0)

get_middle_page(seq) ==
    LET idx == Len(seq) \div 2
    IN  IF idx < Len(seq)
        THEN Ok(seq[idx + 1])
        ELSE Err("EmptySequence", EmptySequenceMsg, NoLine)

-----------------------------------------------------------------------------
(* Strings: the str methods parse_input uses *)

\* The characters with the Unicode property White_Space: U+0009 to U+000D,
\* U+0020, U+0085, U+00A0, U+1680, U+2000 to U+200A, U+2028, U+2029, U+202F,
\* U+205F and U+3000.  U+000B, U+0085 and U+00A0 are in the set as the
\* characters themselves (the third element and the two after the space); a
\* character above U+007F is in it by its code point as well, "U+00A0", the
\* only way a string of this module can hold one above U+00FF.
White_Space ==
    {"\t", "\n", "", "\f", "\r", " ", "", " ",
     "U+0085", "U+00A0", "U+1680",
     "U+2000", "U+2001", "U+2002", "U+2003", "U+2004", "U+2005", "U+2006",
     "U+2007", "U+2008", "U+2009", "U+200A",
     "U+2028", "U+2029", "U+202F", "U+205F", "U+3000"}

\* char::is_whitespace
is_whitespace(c) == c \in White_Space

RECURSIVE trim_start(_)
trim_start(s) ==
    IF s = <<>> \/ ~is_whitespace(Head(s)) THEN s ELSE trim_start(Tail(s))

RECURSIVE trim_end(_)
trim_end(s) ==
    IF s = <<>> \/ ~is_whitespace(s[Len(s)]) THEN s
    ELSE trim_end(SubSeq(s, 1, Len(s) - 1))

\* str::trim
trim(s) == trim_end(trim_start(s))

\* The start positions of the occurrences of pat in s
Matches(s, pat) ==
    {i \in 1..(Len(s) - Len(pat) + 1) : SubSeq(s, i, i + Len(pat) - 1) = pat}

\* str::split: cut at the leftmost occurrence of pat, then split what follows;
\* always at least one piece
RECURSIVE split(_, _)
split(s, pat) ==
    IF Matches(s, pat) = {} THEN <<s>>
    ELSE LET i == CHOOSE m \in Matches(s, pat) : \A n \in Matches(s, pat) : m <= n
         IN  <<SubSeq(s, 1, i - 1)>> \o split(SubSeq(s, i + Len(pat), Len(s)), pat)

\* str::lines: split_inclusive('\n'), then each line loses its "\n" and, if it
\* had one, a "\r" before it; no line for the empty string and none after a
\* final "\n"
lines(s) ==
    IF s = <<>> THEN <<>>
    ELSE LET ps == split(s, <<"\n">>)
             n == IF ps[Len(ps)] = <<>> THEN Len(ps) - 1 ELSE Len(ps)
             strip_cr(l) ==
                 IF l # <<>> /\ l[Len(l)] = "\r" THEN SubSeq(l, 1, Len(l) - 1) ELSE l
         IN  [k \in 1..n |-> IF k < Len(ps) THEN strip_cr(ps[k]) ELSE ps[k]]

\* Mutant of trim_all: the pieces are left as they are.
trim_all_none(xs) == [k \in 1..Len(xs) |-> xs[k]]

\* .map(str::trim) over the pieces of a split
trim_all(xs) == [k \in 1..Len(xs) |-> trim(xs[k])]

RECURSIVE SelectNonEmpty(_)
SelectNonEmpty(xs) ==
    IF xs = <<>> THEN <<>>
    ELSE IF Head(xs) = <<>> THEN SelectNonEmpty(Tail(xs))
    ELSE <<Head(xs)>> \o SelectNonEmpty(Tail(xs))

-----------------------------------------------------------------------------
(* u32::from_str *)

DigitChars == <<"0", "1", "2", "3", "4", "5", "6", "7", "8", "9">>

is_digit(c) == \E d \in 1..10 : DigitChars[d] = c

to_digit(c) == (CHOOSE d \in 1..10 : DigitChars[d] = c) - 1

\* u32::MAX = 4294967295, digit by digit
U32MaxDigits == <<4, 2, 9, 4, 9, 6, 7, 2, 9, 5>>

RECURSIVE strip_zeros(_)
strip_zeros(ds) ==
    IF ds # <<>> /\ Head(ds) = 0 THEN strip_zeros(Tail(ds)) ELSE ds

\* The digits stand for a number above u32::MAX (checked_mul / checked_add fail)
overflows_u32(ds) ==
    LET sig == strip_zeros(ds)
    IN  \/ Len(sig) > Len(U32MaxDigits)
        \/ /\ Len(sig) = Len(U32MaxDigits)
           /\ \E k \in 1..Len(sig) :
                 /\ sig[k] > U32MaxDigits[k]
                 /\ \A h \in 1..(k - 1) : sig[h] = U32MaxDigits[h]

\* The value of a digit string that does not overflow
RECURSIVE digits_value(_)
digits_value(ds) ==
    IF ds = <<>> THEN 0
    ELSE digits_value(SubSeq(ds, 1, Len(ds) - 1)) * 10 + ds[Len(ds)]

ParseIntError(k, m) == Err(k, m, NoLine)

\* Mutant of parse_u32: an empty string parses as 0.
parse_u32_lenient(src) ==
    IF src = <<>> THEN Ok(0)
    ELSE IF \E k \in 1..Len(src) : ~is_digit(src[k])
    THEN ParseIntError("InvalidDigit", "invalid digit found in string")
    ELSE Ok(digits_value([k \in 1..Len(src) |-> to_digit(src[k])]))

\* The number of characters of s before its first character that is no digit
digits_read(s) ==
    LET stops == {k \in 1..Len(s) : ~is_digit(s[k])}
    IN  IF stops = {} THEN Len(s)
        ELSE (CHOOSE k \in stops : \A j \in stops : k <= j) - 1

\* str::parse::<u32>: empty -> Empty; a lone sign -> InvalidDigit; one leading
\* '+' is accepted.  The characters are read left to right, each one first
\* turned into a digit (InvalidDigit if it is none) and then added to the
\* value read so far with checked_mul and checked_add (PosOverflow when the
\* value leaves u32): of an overflow and a character that is no digit, the one
\* met first is reported.
parse_u32(src) ==
    IF src = <<>>
    THEN ParseIntError("Empty", "cannot parse integer from empty string")
    ELSE IF src = <<"+">> \/ src = <<"-">>
    THEN ParseIntError("InvalidDigit", "invalid digit found in string")
    ELSE LET digits == IF Head(src) = "+" THEN Tail(src) ELSE src
             n == digits_read(digits)
             ds == [k \in 1..n |-> to_digit(digits[k])]
         IN  IF overflows_u32(ds)
             THEN ParseIntError("PosOverflow",
                                "number too large to fit in target type")
             ELSE IF n < Len(digits)
             THEN ParseIntError("InvalidDigit", "invalid digit found in string")
             ELSE Ok(digits_value(ds))

-----------------------------------------------------------------------------
(* parse_input *)

SectionsMsg == "Input must have exactly 2 sections"

RuleFormatMsg == "Rule must have format 'X|Y', found: "

\* Mutant of sections_of: the empty sections are kept.
sections_of_unfiltered(text) == trim_all(split(text, <<"\n", "\n">>))

\* split("\n\n").map(trim).filter(!is_empty)
sections_of(text) == SelectNonEmpty(trim_all(split(text, <<"\n", "\n">>)))

\* Mutant of parse_rule: the first two tokens are taken and the rest ignored.
parse_rule_first_two(line) ==
    LET toks == trim_all(split(line, <<"|">>))
    IN  IF Len(toks) < 2
        THEN Err("MalformedRule", RuleFormatMsg, line)
        ELSE LET a == parse_u32(toks[1])
             IN  IF IsErr(a) THEN a
                 ELSE LET b == parse_u32(toks[2])
                      IN  IF IsErr(b) THEN b ELSE Ok(<<a.val, b.val>>)

\* Mutant of parse_rule: the second token is parsed before the first.
parse_rule_after_first(line) ==
    LET toks == trim_all(split(line, <<"|">>))
    IN  IF Len(toks) # 2
        THEN Err("MalformedRule", RuleFormatMsg, line)
        ELSE LET b == parse_u32(toks[2])
             IN  IF IsErr(b) THEN b
                 ELSE LET a == parse_u32(toks[1])
                      IN  IF IsErr(a) THEN a ELSE Ok(<<a.val, b.val>>)

\* One rule line: split('|').map(trim).collect_tuple().context(..)
\*                .and_then(|(a, b)| Ok((a.parse()?, b.parse()?)))
parse_rule(line) ==
    LET toks == trim_all(split(line, <<"|">>))
    IN  IF Len(toks) # 2
        THEN Err("MalformedRule", RuleFormatMsg, line)
        ELSE LET a == parse_u32(toks[1])
             IN  IF IsErr(a) THEN a
                 ELSE LET b == parse_u32(toks[2])
                      IN  IF IsErr(b) THEN b ELSE Ok(<<a.val, b.val>>)

\* rules_section.lines().map(parse_rule).try_collect(): the rules of the lines
\* up to the first Err, which is returned in their place
RECURSIVE parse_rules(_)
parse_rules(ls) ==
    IF ls = <<>> THEN Ok(<<>>)
    ELSE LET r == parse_rule(Head(ls))
         IN  IF IsErr(r) THEN r
             ELSE LET rest == parse_rules(Tail(ls))
                  IN  IF IsErr(rest) THEN rest ELSE Ok(<<r.val>> \o rest.val)

\* .map(|s| s.trim().parse()).collect::<Result<Vec<u32>, _>>() over the tokens
\* of one sequence line
RECURSIVE parse_tokens(_)
parse_tokens(toks) ==
    IF toks = <<>> THEN Ok(<<>>)
    ELSE LET r == parse_u32(trim(Head(toks)))
         IN  IF IsErr(r) THEN r
             ELSE LET rest == parse_tokens(Tail(toks))
                  IN  IF IsErr(rest) THEN rest ELSE Ok(<<r.val>> \o rest.val)

\* Mutant of parse_sequence: the empty tokens are left out.
parse_sequence_skip_empty(line) ==
    parse_tokens(SelectNonEmpty(trim_all(split(line, <<",">>))))

\* One sequence line: split(',').map(|s| s.trim().parse()).collect()
parse_sequence(line) == parse_tokens(split(line, <<",">>))

\* sequences_section.lines().map(parse_sequence).try_collect()
RECURSIVE parse_sequences(_)
parse_sequences(ls) ==
    IF ls = <<>> THEN Ok(<<>>)
    ELSE LET r == parse_sequence(Head(ls))
         IN  IF IsErr(r) THEN r
             ELSE LET rest == parse_sequences(Tail(ls))
                  IN  IF IsErr(rest) THEN rest ELSE Ok(<<r.val>> \o rest.val)

parse_input(text) ==
    LET sections == sections_of(text)
    IN  IF Len(sections) # 2
        THEN Err("MalformedInput", SectionsMsg, NoLine)
        ELSE LET rs == parse_rules(lines(sections[1]))
             IN  IF IsErr(rs) THEN rs
                 ELSE LET ss == parse_sequences(lines(sections[2]))
                      IN  IF IsErr(ss) THEN ss
                          ELSE Ok([rules |-> rs.val, sequences |-> ss.val])

-----------------------------------------------------------------------------
(* solve_part1 and solve_part1_naive *)

\* Iterator::sum over Results of u32: the values are added to the sum, from
\* 0, in the order of the iterator, up to the first Err, which is returned in
\* place of the sum; an addition that overflows panics or wraps.  The sum so
\* far, acc, is kept in its two parts, so that it can pass 2^31 on its way.
RECURSIVE sum_results_from(_, _, _)
sum_results_from(acc, rs, overflow_checks) ==
    IF rs = <<>> THEN Ok(u32_of(acc))
    ELSE IF IsErr(Head(rs)) THEN Head(rs)
    ELSE LET sum == u32_add_parts(acc, u32_parts(Head(rs).val), overflow_checks)
         IN  IF IsPanic(sum) THEN sum
             ELSE sum_results_from(sum.val, Tail(rs), overflow_checks)

sum_results(rs, overflow_checks) ==
    sum_results_from(u32_parts(0), rs, overflow_checks)

\* Mutant of valid_middles: the position maps of a sequence also hold the pages
\* of the sequence after it.
RECURSIVE valid_middles_shared(_, _)
valid_middles_shared(seqs, rs) ==
    IF seqs = <<>> THEN <<>>
    ELSE (IF is_valid_sequence(Head(seqs) \o (IF Len(seqs) > 1 THEN seqs[2] ELSE <<>>), rs)
          THEN <<get_middle_page(Head(seqs))>> ELSE <<>>)
             \o valid_middles_shared(Tail(seqs), rs)

\* filter_map(|s| is_valid_sequence(s, &rules).then_some(get_middle_page(s)))
RECURSIVE valid_middles(_, _)
valid_middles(seqs, rs) ==
    IF seqs = <<>> THEN <<>>
    ELSE (IF is_valid_sequence(Head(seqs), rs)
          THEN <<get_middle_page(Head(seqs))>> ELSE <<>>)
             \o valid_middles(Tail(seqs), rs)

\* filter_map(|s| is_valid_sequence_naive(s, &rules).then_some(get_middle_page(s)))
RECURSIVE valid_middles_naive(_, _)
valid_middles_naive(seqs, rs) ==
    IF seqs = <<>> THEN <<>>
    ELSE (IF is_valid_sequence_naive(Head(seqs), rs)
          THEN <<get_middle_page(Head(seqs))>> ELSE <<>>)
             \o valid_middles_naive(Tail(seqs), rs)

\* Mutant of solve_part1: a text that fails to parse sums to 0.
solve_part1_partial(text, overflow_checks) ==
    LET parsed == parse_input(text)
    IN  IF IsErr(parsed) THEN Ok(0)
        ELSE sum_results(valid_middles(parsed.val.sequences, parsed.val.rules),
                         overflow_checks)

\* let (rules, sequences) = parse_input(input)?; then the sum over the valid
\* sequences
solve_part1(text, overflow_checks) ==
    LET parsed == parse_input(text)
    IN  IF IsErr(parsed) THEN parsed
        ELSE sum_results(valid_middles(parsed.val.sequences, parsed.val.rules),
                         overflow_checks)

solve_part1_naive(text, overflow_checks) ==
    LET parsed == parse_input(text)
    IN  IF IsErr(parsed) THEN parsed
        ELSE sum_results(valid_middles_naive(parsed.val.sequences, parsed.val.rules),
                         overflow_checks)

-----------------------------------------------------------------------------
(* Input texts *)

\* Fragments from which the raw texts are assembled
Pieces == {<<"1">>, <<"|">>, <<",">>, <<"\n">>, <<"\n", "\n">>, <<" ">>, <<"a">>}

RECURSIVE Flatten(_)
Flatten(ps) == IF ps = <<>> THEN <<>> ELSE Head(ps) \o Flatten(Tail(ps))

\* Every concatenation of at most MaxPieces fragments
RawTexts == {Flatten(ps) : ps \in SeqsUpTo(Pieces, MaxPieces)}

\* The pages of the well-formed texts
TextPages == {2, 11}

\* Decimal digits of n, as u32's Display writes them
RECURSIVE to_string(_)
to_string(n) ==
    IF n < 10 THEN <<DigitChars[n + 1]>>
    ELSE to_string(n \div 10) \o <<DigitChars[(n % 10) + 1]>>

RECURSIVE Join(_, _)
Join(xs, sep) ==
    IF xs = <<>> THEN <<>>
    ELSE IF Len(xs) = 1 THEN xs[1]
    ELSE xs[1] \o sep \o Join(Tail(xs), sep)

RuleLine(r) == to_string(r[1]) \o <<"|">> \o to_string(r[2])

\* The sequences section: page tokens, each followed by "," (the line goes
\* on) or "\n" (the next sequence begins)
RECURSIVE SeqSection(_, _)
SeqSection(pages, seps) ==
    IF pages = <<>> THEN <<>>
    ELSE IF Len(pages) = 1 THEN to_string(pages[1])
    ELSE to_string(pages[1]) \o <<seps[1]>> \o SeqSection(Tail(pages), Tail(seps))

\* Texts in the format of the puzzle: rule lines, a blank line, sequence lines
WellFormedTexts ==
    {Join([k \in 1..Len(rs) |-> RuleLine(rs[k])], <<"\n">>)
         \o <<"\n", "\n">> \o SeqSection(ps, seps) :
        <<rs, ps, seps>> \in
            SeqsUpTo(TextPages \X TextPages, MaxRuleLines)
                \X SeqsUpTo(TextPages, MaxSeqTokens)
                \X [1..MaxSeqTokens -> {",", "\n"}]}

\* Tokens of a rule or sequence line: empty, plain, signed, not a number,
\* padded with spaces, one above u32::MAX
TokenSamples ==
    {<<>>, <<"1">>, <<"+", "1">>, <<"-", "1">>, <<"a">>, <<" ", "1", " ">>,
     <<"4", "2", "9", "4", "9", "6", "7", "2", "9", "6">>}

\* Texts of one rule line and one or two sequence tokens, every token a sample
TokenTexts ==
    {a \o <<"|">> \o b \o <<"\n", "\n">> \o c : <<a, b, c>> \in
         TokenSamples \X TokenSamples \X TokenSamples}
    \cup
    {a \o <<"|">> \o b \o <<"\n", "\n">> \o c \o <<sep>> \o d : <<a, b, c, sep, d>> \in
         TokenSamples \X TokenSamples \X TokenSamples \X {",", "\n"} \X TokenSamples}

\* Every concatenation of fewer than MaxPieces fragments
ShortTexts == {Flatten(ps) : ps \in SeqsUpTo(Pieces, MaxPieces - 1)}

\* The text with the character c put in after its first k characters
InsertAt(text, k, c) == SubSeq(text, 1, k) \o <<c>> \o SubSeq(text, k + 1, Len(text))

\* Whitespace that is neither a space nor a newline: tab, U+000B, form feed,
\* carriage return, no-break space
OtherSpaces == {"\t", "", "\f", "\r", " "}

\* A token whose digits leave u32 before its letter, and one whose digits stay
\* in u32
LongTokens ==
    {<<"4", "2", "9", "4", "9", "6", "7", "2", "9", "6", "a">>,
     <<"4", "2", "9", "4", "9", "6", "7", "2", "9", "5", "a">>}

\* A well-formed text, the same followed by a blank line, each with one such
\* whitespace character put in at any place, and the texts with one long token
EdgeTexts ==
    UNION {{InsertAt(t, k, w) : k \in 0..Len(t), w \in OtherSpaces} : t \in
               {<<"1", "|", "2", "\n", "\n", "1", ",", "2">>,
                <<"1", "|", "2", "\n", "\n", "1", ",", "2", "\n", "\n">>}}
    \cup
    {a \o <<"|">> \o b \o <<"\n", "\n">> \o c : <<a, b, c>> \in
         {<<t, <<"1">>, <<"1">>>> : t \in LongTokens}
             \cup {<<<<"1">>, t, <<"1">>>> : t \in LongTokens}
             \cup {<<<<"1">>, <<"2">>, t>> : t \in LongTokens}}

\* A text of three valid sequences of one page each, whose sum leaves u32
\* at the third page: 3 * 2147483647 = 6442450941 > 4294967295
LargePageTexts ==
    {<<"1", "|", "2", "\n", "\n">>
         \o Join(<<to_string(I32_MAX), to_string(I32_MAX), to_string(I32_MAX)>>,
                 <<"\n">>)}

-----------------------------------------------------------------------------
(* The variables of the functions a driver does not call, at rest *)

Day01Idle ==
    /\ ret_solve_part2 = Unset
    /\ ret_solve_part2_naive = Unset

Day02Idle ==
    /\ report = <<>>
    /\ ret_safe = Unset
    /\ ret_safe_functional = Unset
    /\ ret_dampener = Unset
    /\ ret_count = Unset
    /\ ret_count_functional = Unset
    /\ ret_count_dampener = Unset

Day03Idle ==
    /\ unscanned = <<>>
    /\ enabled = TRUE
    /\ instructions = <<>>
    /\ seen = <<>>
    /\ ret_extract = Unset

Day03SolveIdle ==
    /\ ret_mul = Unset
    /\ ret_enabled_mul = Unset
    /\ ret_sum = Unset
    /\ ret_sum_enabled = Unset

Day04Idle ==
    /\ grid = <<>>
    /\ start_row = <<0, 0, 0, 0>>
    /\ start_col = <<0, 0, 0, 0>>
    /\ row_delta = <<0, 0, 0, 0>>
    /\ col_delta = <<0, 0, 0, 0>>
    /\ ret_check = Unset
    /\ ret_xmas = Unset

LoopIdle ==
    /\ loop_first_pos = EmptyMap
    /\ loop_last_pos = EmptyMap
    /\ loop_i = 0
    /\ rule_i = 0
    /\ steps = 0
    /\ ret_loop = FALSE

Day05Idle ==
    /\ sequence = <<>>
    /\ rules = <<>>
    /\ ret_valid = FALSE
    /\ ret_naive = FALSE
    /\ ret_middle = Unset
    /\ ret_parse = Unset
    /\ ret_solve = Unset
    /\ ret_solve_naive = Unset

-----------------------------------------------------------------------------
(* Driver of the parser and the solvers: one input text, each function     *)
(* called once on it.                                                      *)

InitText ==
    /\ pc = "start"
    /\ Day03SolveIdle
    /\ Day04Idle
    /\ LoopIdle
    /\ input \in RawTexts \cup WellFormedTexts \cup EdgeTexts \cup LargePageTexts
    /\ ret_parse = Unset
    /\ ret_solve = Unset
    /\ ret_solve_naive = Unset
    /\ sequence = <<>>
    /\ rules = <<>>
    /\ ret_valid = FALSE
    /\ ret_naive = FALSE
    /\ ret_middle = Unset
    /\ Day01Idle
    /\ Day02Idle
    /\ Day03Idle

CallParseInput ==
    /\ pc = "start"
    /\ ret_parse' = parse_input(input)
    /\ pc' = "parsed"
    /\ UNCHANGED <<input, ret_solve, ret_solve_naive, validVars, day01Vars, day02Vars, day03Vars,
                   day03SolveVars, day04Vars, loopVars>>

CallSolvePart1 ==
    /\ pc = "parsed"
    /\ \E overflow_checks \in BOOLEAN :
           ret_solve' = solve_part1(input, overflow_checks)
    /\ pc' = "solved"
    /\ UNCHANGED <<input, ret_parse, ret_solve_naive, validVars, day01Vars, day02Vars, day03Vars,
                   day03SolveVars, day04Vars, loopVars>>

CallSolvePart1Naive ==
    /\ pc = "solved"
    /\ \E overflow_checks \in BOOLEAN :
           ret_solve_naive' = solve_part1_naive(input, overflow_checks)
    /\ pc' = "done"
    /\ UNCHANGED <<input, ret_parse, ret_solve, validVars, day01Vars, day02Vars, day03Vars,
                   day03SolveVars, day04Vars, loopVars>>

NextText ==
    \/ CallParseInput
    \/ CallSolvePart1
    \/ CallSolvePart1Naive

SpecText == InitText /\ [][NextText]_vars

\* The same driver over the texts of tokens, the well-formed texts and the
\* concatenations of fewer fragments
InitParse ==
    /\ pc = "start"
    /\ Day03SolveIdle
    /\ Day04Idle
    /\ LoopIdle
    /\ input \in ShortTexts \cup WellFormedTexts \cup TokenTexts \cup EdgeTexts
    /\ Day01Idle
    /\ Day02Idle
    /\ Day03Idle
    /\ Day05Idle

SpecParse == InitParse /\ [][NextText]_vars

\* The same driver over the texts in the format of the puzzle, whose sequence
\* lines can be put in another order
InitOrder ==
    /\ pc = "start"
    /\ Day03SolveIdle
    /\ Day04Idle
    /\ LoopIdle
    /\ input \in WellFormedTexts
    /\ Day01Idle
    /\ Day02Idle
    /\ Day03Idle
    /\ Day05Idle

SpecOrder == InitOrder /\ [][NextText]_vars

-----------------------------------------------------------------------------
(* Driver of the validators: one (sequence, rules) input, each function    *)
(* called once on it, as the parameterised tests do.                       *)

InitValid ==
    /\ pc = "start"
    /\ Day03SolveIdle
    /\ Day04Idle
    /\ LoopIdle
    /\ sequence \in SeqsUpTo(Pages, MaxSeqLen)
    /\ rules \in SeqsUpTo(Pages \X Pages, MaxRules)
    /\ ret_valid = FALSE
    /\ ret_naive = FALSE
    /\ ret_middle = Unset
    /\ input = <<>>
    /\ ret_parse = Unset
    /\ ret_solve = Unset
    /\ ret_solve_naive = Unset
    /\ Day01Idle
    /\ Day02Idle
    /\ Day03Idle

CallIsValidSequence ==
    /\ pc = "start"
    /\ ret_valid' = is_valid_sequence(sequence, rules)
    /\ pc' = "validated"
    /\ UNCHANGED <<sequence, rules, ret_naive, ret_middle, textVars, day01Vars, day02Vars, day03Vars,
                   day03SolveVars, day04Vars, loopVars>>

CallIsValidSequenceNaive ==
    /\ pc = "validated"
    /\ ret_naive' = is_valid_sequence_naive(sequence, rules)
    /\ pc' = "cross_checked"
    /\ UNCHANGED <<sequence, rules, ret_valid, ret_middle, textVars, day01Vars, day02Vars, day03Vars,
                   day03SolveVars, day04Vars, loopVars>>

CallGetMiddlePage ==
    /\ pc = "cross_checked"
    /\ ret_middle' = get_middle_page(sequence)
    /\ pc' = "done"
    /\ UNCHANGED <<sequence, rules, ret_valid, ret_naive, textVars, day01Vars, day02Vars, day03Vars,
                   day03SolveVars, day04Vars, loopVars>>

NextValid ==
    \/ CallIsValidSequence
    \/ CallIsValidSequenceNaive
    \/ CallGetMiddlePage

SpecValid == InitValid /\ [][NextValid]_vars

-----------------------------------------------------------------------------
(* Properties of the validators and of get_middle_page (SpecValid) *)

\* The positions (1-based) at which page p occurs in seq
Occ(seq, p) == {i \in 1..Len(seq) : seq[i] = p}

Smallest(S) == CHOOSE x \in S : \A y \in S : x <= y

Largest(S) == CHOOSE x \in S : \A y \in S : x >= y

\* Every occurrence of `before` stands before every occurrence of `after`
AllBeforeAll(seq, before, after) ==
    \A i \in Occ(seq, before) : \A j \in Occ(seq, after) : i < j

Validated == pc \in {"validated", "cross_checked", "done"}

CrossChecked == pc \in {"cross_checked", "done"}

\* C1: for every sequence and every rule list, is_valid_sequence and
\* is_valid_sequence_naive return the same boolean.
C1_ValidatorsAgree == CrossChecked => (ret_valid = ret_naive)

\* C2: is_valid_sequence returns true iff, for every rule whose two pages both
\* occur in the sequence, every index of `before` is less than every index of
\* `after`; equivalently the last index of `before` is less than the first
\* index of `after`.
C2_ValidIffAllBeforeAll ==
    Validated =>
        /\ ret_valid <=>
              \A r \in 1..Len(rules) :
                  (Occ(sequence, rules[r][1]) # {} /\ Occ(sequence, rules[r][2]) # {})
                      => AllBeforeAll(sequence, rules[r][1], rules[r][2])
        /\ ret_valid <=>
              \A r \in 1..Len(rules) :
                  (Occ(sequence, rules[r][1]) # {} /\ Occ(sequence, rules[r][2]) # {})
                      => Largest(Occ(sequence, rules[r][1]))
                             < Smallest(Occ(sequence, rules[r][2]))

\* C2 witness: a sequence with a repeated page, judged valid under a rule both
\* of whose pages occur in it.
C2_Witness ==
    /\ pc = "validated"
    /\ ret_valid
    /\ \E r \in 1..Len(rules) :
          /\ Cardinality(Occ(sequence, rules[r][1])) >= 2
          /\ Occ(sequence, rules[r][2]) # {}

\* C5: both validators return true when the rule list is empty, whatever the
\* sequence, and when the sequence is empty, whatever the rules.
C5_VacuouslyValid ==
    (CrossChecked /\ (rules = <<>> \/ sequence = <<>>)) => (ret_valid /\ ret_naive)

\* C5 witness: the empty sequence checked against a non-empty rule list.
C5_Witness ==
    /\ pc = "cross_checked"
    /\ sequence = <<>>
    /\ Len(rules) = MaxRules
    /\ ret_valid
    /\ ret_naive

\* C6: for a single rule (x, y) with x # y, both validators return false
\* exactly when some occurrence of y stands before some occurrence of x, and
\* true otherwise (all x before all y, or x or y absent).
C6_SingleRuleDuplicates ==
    (CrossChecked /\ Len(rules) = 1 /\ rules[1][1] # rules[1][2]) =>
        LET x == rules[1][1]
            y == rules[1][2]
            yBeforeX == \E i \in Occ(sequence, y) : \E j \in Occ(sequence, x) : i < j
        IN  /\ ret_valid = ~yBeforeX
            /\ ret_naive = ~yBeforeX
            /\ (Occ(sequence, x) = {} \/ Occ(sequence, y) = {}) => (ret_valid /\ ret_naive)

\* C6 witness: interleaved duplicates (x, y, x) rejected by both validators.
C6_Witness ==
    /\ pc = "cross_checked"
    /\ Len(rules) = 1
    /\ rules[1][1] # rules[1][2]
    /\ Len(sequence) = 3
    /\ sequence[1] = rules[1][1]
    /\ sequence[2] = rules[1][2]
    /\ sequence[3] = rules[1][1]
    /\ ~ret_valid
    /\ ~ret_naive

\* The middle position (1-based) of a sequence of n >= 1 elements: as many
\* elements before it as after it when n is odd, one more before it than
\* after it when n is even.
MiddlePosition(n) ==
    CHOOSE k \in 1..n :
        IF n % 2 = 1 THEN k - 1 = n - k ELSE k - 1 = (n - k) + 1

\* C7: for every non-empty sequence get_middle_page returns the element at
\* index len/2: the true middle for odd lengths, the upper of the two middle
\* elements for even lengths, the only element for length 1.
C7_MiddleElement ==
    (pc = "done" /\ sequence # <<>>) =>
        /\ IsOk(ret_middle)
        /\ ret_middle.val = sequence[MiddlePosition(Len(sequence))]
        /\ (Len(sequence) = 1) => (ret_middle.val = sequence[1])

\* C7 witness: an even-length sequence whose two middle elements differ.
C7_Witness ==
    /\ pc = "done"
    /\ Len(sequence) = 4
    /\ sequence[2] # sequence[3]
    /\ ret_middle = Ok(sequence[3])

\* C8: get_middle_page returns the empty-sequence error, and no value, on a
\* sequence with zero elements, and never an error on a non-empty one.
C8_EmptySequenceError ==
    (pc = "done") =>
        /\ (sequence = <<>>) =>
              /\ IsErr(ret_middle)
              /\ ret_middle.msg = "Cannot get middle page of empty sequence"
        /\ (sequence # <<>>) => ~IsErr(ret_middle)

\* C8 witness: the error returned for the empty sequence.
C8_Witness ==
    /\ pc = "done"
    /\ sequence = <<>>
    /\ ret_middle.tag = "Err"
    /\ ret_middle.kind = "EmptySequence"

\* Positions i < j of the sequence and a rule that wants sequence[j] before
\* sequence[i]
InvertedPair(seq, rs, i, j) ==
    /\ i < j
    /\ \E r \in 1..Len(rs) : rs[r][1] = seq[j] /\ rs[r][2] = seq[i]

\* C24: is_valid_sequence_naive returns false exactly when there are
\* positions i < j in the sequence and a rule (before, after) with
\* before = sequence[j] and after = sequence[i]; a sequence of length 0 or 1
\* is therefore valid under every rule list.
C24_NaiveFalseIffInvertedPair ==
    CrossChecked =>
        /\ (ret_naive = FALSE) <=>
               \E i, j \in 1..Len(sequence) : InvertedPair(sequence, rules, i, j)
        /\ (Len(sequence) <= 1) => (ret_naive = TRUE)

\* C24 witness: the naive validator has returned false for a sequence whose
\* only inverted pairs are of elements that are not neighbours.
C24_Witness ==
    /\ pc = "cross_checked"
    /\ ret_naive = FALSE
    /\ \A i \in 1..(Len(sequence) - 1) :
           ~InvertedPair(sequence, rules, i, i + 1)

-----------------------------------------------------------------------------
(* Properties of the parser and the solvers (SpecText, SpecParse, SpecOrder) *)

Parsed == pc = "parsed"

Solved == pc \in {"solved", "done"}

\* C3: for every input text solve_part1 and solve_part1_naive return the same
\* outcome: both fail, or both succeed with the same sum.
C3_SolversAgree ==
    (pc = "done") =>
        /\ IsErr(ret_solve) <=> IsErr(ret_solve_naive)
        /\ (IsOk(ret_solve) /\ IsOk(ret_solve_naive)) => (ret_solve.val = ret_solve_naive.val)

\* The elements at index len/2 of the sequences that is_valid_sequence
\* accepts, in the order of the sequences
RECURSIVE ValidMiddles(_, _, _)
ValidMiddles(seqs, rs, k) ==
    IF k > Len(seqs) THEN <<>>
    ELSE (IF is_valid_sequence(seqs[k], rs)
          THEN <<seqs[k][(Len(seqs[k]) \div 2) + 1]>> ELSE <<>>)
             \o ValidMiddles(seqs, rs, k + 1)

\* v is the sum of the natural numbers ms: taking them away from v one by
\* one never goes below 0 and leaves 0
RECURSIVE SumIs(_, _)
SumIs(v, ms) ==
    IF ms = <<>> THEN v = 0
    ELSE v >= Head(ms) /\ SumIs(v - Head(ms), Tail(ms))

\* C4: for every input text that parses, solve_part1 returns the sum, over
\* exactly the parsed sequences that is_valid_sequence accepts against the full
\* parsed rule list, of the element at index len/2; invalid sequences contribute
\* nothing and the result is 0 when no sequence is valid.
C4_SumOfValidMiddles ==
    (Solved /\ IsOk(ret_parse)) =>
        LET seqs == ret_parse.val.sequences
            rs == ret_parse.val.rules
        IN  /\ IsOk(ret_solve)
            /\ SumIs(ret_solve.val, ValidMiddles(seqs, rs, 1))
            /\ (\A k \in 1..Len(seqs) : ~is_valid_sequence(seqs[k], rs))
                   => (ret_solve.val = 0)

\* The positions of the characters of the text that are not whitespace
NonWs(text) == {i \in 1..Len(text) : ~is_whitespace(text[i])}

\* A blank line (two newlines in a row) lies strictly between positions p and q
BlankLineBetween(text, p, q) ==
    \E i \in (p + 1)..(q - 2) : text[i] = "\n" /\ text[i + 1] = "\n"

\* The number of non-empty sections of the text: the visible characters fall
\* into one more group than there are blank-line gaps between neighbours
SectionCount(text) ==
    IF NonWs(text) = {} THEN 0
    ELSE 1 + Cardinality({p \in NonWs(text) :
                 \E q \in NonWs(text) :
                     /\ p < q
                     /\ \A m \in NonWs(text) : ~(p < m /\ m < q)
                     /\ BlankLineBetween(text, p, q)})

\* C9: parse_input fails with "Input must have exactly 2 sections" whenever the
\* text, split at blank lines with empty sections discarded, does not consist
\* of exactly two non-empty sections, and never with that error when it does.
C9_SectionCountError ==
    Parsed =>
        ((IsErr(ret_parse) /\ ret_parse.msg = "Input must have exactly 2 sections")
            <=> (SectionCount(input) # 2))

\* C9 witness: a text of three sections rejected with the section error.
C9_Witness ==
    /\ pc = "parsed"
    /\ SectionCount(input) = 3
    /\ ret_parse.tag = "Err"
    /\ ret_parse.kind = "MalformedInput"

\* The lines of the rules section of a text of two sections
RuleLines(text) ==
    LET sections == sections_of(text)
    IN  IF Len(sections) = 2 THEN lines(sections[1]) ELSE <<>>

PipeCount(line) == Cardinality({i \in 1..Len(line) : line[i] = "|"})

IsNumber(tok) == IsOk(parse_u32(trim(tok)))

\* A rule line made of two integers around one '|'
WellFormedRuleLine(line) ==
    /\ PipeCount(line) = 1
    /\ LET i == CHOOSE j \in 1..Len(line) : line[j] = "|"
       IN  /\ IsNumber(SubSeq(line, 1, i - 1))
           /\ IsNumber(SubSeq(line, i + 1, Len(line)))

IsRuleFormatError(r, line) ==
    /\ r.tag = "Err"
    /\ r.kind = "MalformedRule"
    /\ r.msg = "Rule must have format 'X|Y', found: "
    /\ r.line = line

\* C10 as stated: parse_input fails with the malformed-rule error, naming the
\* line, when some rule line splits on '|' into a number of tokens other than
\* two.
C10_AnyBadRuleLine ==
    Parsed =>
        LET rule_lines == RuleLines(input)
        IN  (\E k \in 1..Len(rule_lines) : PipeCount(rule_lines[k]) # 1)
                => \E k \in 1..Len(rule_lines) :
                       /\ PipeCount(rule_lines[k]) # 1
                       /\ IsRuleFormatError(ret_parse, rule_lines[k])

\* C10 amended: parse_input fails with the malformed-rule error, whose message
\* ends with the text of the offending line, when the topmost rule line that is
\* not a well-formed pair of integers splits on '|' into a number of tokens
\* other than two.
C10_FirstBadRuleLine ==
    Parsed =>
        LET rule_lines == RuleLines(input)
        IN  \A k \in 1..Len(rule_lines) :
                (/\ PipeCount(rule_lines[k]) # 1
                 /\ \A h \in 1..(k - 1) : WellFormedRuleLine(rule_lines[h]))
                    => IsRuleFormatError(ret_parse, rule_lines[k])

\* C10 witness: a rule line with two '|' rejected with the rule error naming it.
C10_Witness ==
    /\ pc = "parsed"
    /\ ret_parse.tag = "Err"
    /\ ret_parse.kind = "MalformedRule"
    /\ PipeCount(ret_parse.line) = 2
    /\ RuleLines(input)[1] = ret_parse.line

\* The lines of the sequences section of a text of two sections
SeqLines(text) ==
    LET sections == sections_of(text)
    IN  IF Len(sections) = 2 THEN lines(sections[2]) ELSE <<>>

\* The token, after trimming, is a decimal number: digits, at most one '+'
\* before them
IsDecimalNumber(tok) ==
    LET t == trim(tok)
        d == IF t # <<>> /\ t[1] = "+" THEN Tail(t) ELSE t
    IN  /\ d # <<>>
        /\ \A k \in 1..Len(d) :
               d[k] \in {"0", "1", "2", "3", "4", "5", "6", "7", "8", "9"}

\* The tokens of a line cut at the separator
TokensOf(line, sep) ==
    LET toks == split(line, sep) IN {toks[t] : t \in 1..Len(toks)}

\* The '|'-separated tokens of the rule lines and the ','-separated tokens of
\* the sequence lines
RuleTokens(text) ==
    LET rule_lines == RuleLines(text)
    IN  UNION {TokensOf(rule_lines[k], <<"|">>) : k \in 1..Len(rule_lines)}

SeqTokens(text) ==
    LET seq_lines == SeqLines(text)
    IN  UNION {TokensOf(seq_lines[k], <<",">>) : k \in 1..Len(seq_lines)}

SomeBadToken(text) ==
    \E tok \in RuleTokens(text) \cup SeqTokens(text) : ~IsDecimalNumber(tok)

IsNumberFormatError(r) ==
    /\ r.tag = "Err"
    /\ r.kind \in {"Empty", "InvalidDigit", "PosOverflow"}

\* C11 as stated: parse_input fails with a number-format error whenever any
\* rule token or any sequence token is, after trimming, not a non-negative
\* integer.
C11_AnyBadToken ==
    Parsed => (SomeBadToken(input) => IsNumberFormatError(ret_parse))

\* C11 amended: when every rule line splits on '|' into exactly two tokens,
\* parse_input fails with a number-format error whenever any rule token or any
\* sequence token is, after trimming, not a non-negative integer; an empty
\* token (the missing side of "47|", the gap of a doubled or trailing comma)
\* is such a token.
C11_BadTokenAmongPairs ==
    Parsed =>
        LET rule_lines == RuleLines(input)
        IN  ((\A k \in 1..Len(rule_lines) : PipeCount(rule_lines[k]) = 1)
             /\ SomeBadToken(input))
                => IsNumberFormatError(ret_parse)

\* C11 witness: a sequence line with a trailing comma, rejected for its empty
\* last token.
C11_Witness ==
    /\ pc = "parsed"
    /\ \A k \in 1..Len(RuleLines(input)) : WellFormedRuleLine(RuleLines(input)[k])
    /\ Len(SeqLines(input)) = 1
    /\ input[Len(input)] = ","
    /\ ret_parse.tag = "Err"
    /\ ret_parse.kind = "Empty"

\* C12: when parse_input fails on a text, solve_part1 and solve_part1_naive
\* both fail with that same error and return no sum, however many of the
\* other rules and sequences are well formed.
C12_ParseErrorPropagates ==
    (pc = "done" /\ IsErr(ret_parse)) =>
        /\ ret_solve = ret_parse
        /\ ret_solve_naive = ret_parse

\* C12 witness: a well-formed rule and a well-formed first sequence, followed
\* by a sequence line that is not a number; both solvers have failed.
C12_Witness ==
    /\ pc = "done"
    /\ Len(RuleLines(input)) = 1
    /\ WellFormedRuleLine(RuleLines(input)[1])
    /\ Len(SeqLines(input)) = 2
    /\ IsOk(parse_sequence(SeqLines(input)[1]))
    /\ IsErr(parse_sequence(SeqLines(input)[2]))
    /\ IsErr(ret_solve)
    /\ IsErr(ret_solve_naive)

\* A character of a token: neither whitespace nor a separator
IsTokenChar(c) == c \notin {" ", "\n", "|", ","}

\* Position k (between text[k] and text[k + 1]) is the start or the end of the
\* text, or has a token on exactly one side
AroundToken(text, k) ==
    \/ k = 0
    \/ k = Len(text)
    \/ IsTokenChar(text[k]) # IsTokenChar(text[k + 1])

\* The text with a space at every position around a token
RECURSIVE SpacedFrom(_, _)
SpacedFrom(text, k) ==
    IF k > Len(text) THEN <<>>
    ELSE (IF k > 0 THEN <<text[k]>> ELSE <<>>)
         \o (IF AroundToken(text, k) THEN <<" ">> ELSE <<>>)
         \o SpacedFrom(text, k + 1)

Spaced(text) == SpacedFrom(text, 0)

\* C13: for a text that parses, a space added before or after any rule token
\* or sequence token, or at the start or the end of the text, spaces added at
\* all these places at once, and a newline added at the end, leave the rules
\* and sequences parse_input returns unchanged.
C13_WhitespaceInsensitive ==
    (pc = "parsed" /\ IsOk(ret_parse)) =>
        /\ \A k \in 0..Len(input) :
               AroundToken(input, k) => parse_input(InsertAt(input, k, " ")) = ret_parse
        /\ parse_input(Spaced(input)) = ret_parse
        /\ parse_input(input \o <<"\n">>) = ret_parse
        /\ parse_input(Spaced(input) \o <<"\n">>) = ret_parse

\* C13 witness: a parsed text of a rule and a sequence of two pages, with no
\* space in it, so that every space of the padded text is an added one.
C13_Witness ==
    /\ pc = "parsed"
    /\ IsOk(ret_parse)
    /\ Len(ret_parse.val.rules) = 1
    /\ \E k \in 1..Len(ret_parse.val.sequences) : Len(ret_parse.val.sequences[k]) = 2
    /\ \A k \in 1..Len(input) : input[k] # " "
    /\ Spaced(input) # input

\* The rule list in the order p[1], p[2], ...
Reordered(rs, p) == [k \in 1..Len(rs) |-> rs[p[k]]]

\* The rule list without its rule at position k
Dropped(rs, k) == SubSeq(rs, 1, k - 1) \o SubSeq(rs, k + 1, Len(rs))

\* Both validators give the rule list rs the verdicts they gave `rules`
SameVerdicts(rs) ==
    /\ is_valid_sequence(sequence, rs) = ret_valid
    /\ is_valid_sequence_naive(sequence, rs) = ret_naive

\* C14: the verdict of is_valid_sequence and of is_valid_sequence_naive
\* depends only on the set of rules: the rules in any other order, with any
\* rule repeated at the front or at the end, or with one copy of a repeated
\* rule left out, get the verdict the given list got.
C14_RuleSetOnly ==
    (pc = "done") =>
        /\ \A p \in Permutations(1..Len(rules)) : SameVerdicts(Reordered(rules, p))
        /\ \A k \in 1..Len(rules) :
               /\ SameVerdicts(rules \o <<rules[k]>>)
               /\ SameVerdicts(<<rules[k]>> \o rules)
               /\ (\E j \in 1..Len(rules) : j # k /\ rules[j] = rules[k])
                      => SameVerdicts(Dropped(rules, k))

\* C14 witness: two different rules of which the first holds and the second
\* is broken, so that both validators have rejected the sequence.
C14_Witness ==
    /\ pc = "done"
    /\ Len(rules) = 2
    /\ rules[1] # rules[2]
    /\ is_valid_sequence(sequence, <<rules[1]>>)
    /\ ~is_valid_sequence(sequence, <<rules[2]>>)
    /\ ~ret_valid
    /\ ~ret_naive

\* The text with its sequence lines in the order p[1], p[2], ...
PermutedText(text, p) ==
    LET sections == sections_of(text)
        seq_lines == lines(sections[2])
    IN  sections[1] \o <<"\n", "\n">>
            \o Join([k \in 1..Len(seq_lines) |-> seq_lines[p[k]]], <<"\n">>)

\* C15: what a sequence contributes to the sum depends on that sequence and
\* the rules alone, not on the sequences validated before it, and solve_part1
\* returns the same sum for every order of the sequence lines of the text.
C15_OrderOfSequences ==
    (pc = "done" /\ IsOk(ret_parse)) =>
        /\ LET seqs == ret_parse.val.sequences
               rs == ret_parse.val.rules
           IN  valid_middles(seqs, rs)
                   = Flatten([k \in 1..Len(seqs) |-> valid_middles(<<seqs[k]>>, rs)])
        /\ \A p \in Permutations(1..Len(SeqLines(input))) :
               \A overflow_checks \in BOOLEAN :
                   solve_part1(PermutedText(input, p), overflow_checks) = ret_solve

\* C15 witness: under rules of two different pages each, two sequence lines of
\* which the first is valid and the second is not, summed by solve_part1.
C15_Witness ==
    /\ pc = "done"
    /\ IsOk(ret_parse)
    /\ Len(SeqLines(input)) = 2
    /\ Len(ret_parse.val.sequences) = 2
    /\ \A k \in 1..Len(ret_parse.val.rules) :
           ret_parse.val.rules[k][1] # ret_parse.val.rules[k][2]
    /\ is_valid_sequence(ret_parse.val.sequences[1], ret_parse.val.rules)
    /\ ~is_valid_sequence(ret_parse.val.sequences[2], ret_parse.val.rules)
    /\ IsOk(ret_solve)
    /\ ret_solve.val > 0

\* The first error of a list of results, Unset when there is none
FirstErr(rs) ==
    IF \E k \in 1..Len(rs) : IsErr(rs[k])
    THEN rs[CHOOSE k \in 1..Len(rs) :
                IsErr(rs[k]) /\ \A h \in 1..(k - 1) : ~IsErr(rs[h])]
    ELSE Unset

\* The outcomes of the steps on one rule line: the format check alone when
\* it fails, else the before token and then the after token
RuleSteps(line) ==
    IF PipeCount(line) # 1
    THEN << Err("MalformedRule", "Rule must have format 'X|Y', found: ", line) >>
    ELSE LET toks == split(line, <<"|">>)
         IN  << parse_u32(trim(toks[1])), parse_u32(trim(toks[2])) >>

\* The outcomes of the steps on one sequence line: its tokens left to right
SeqSteps(line) ==
    LET toks == split(line, <<",">>)
    IN  [k \in 1..Len(toks) |-> parse_u32(trim(toks[k]))]

AllRuleSteps(text) ==
    LET rule_lines == RuleLines(text)
    IN  Flatten([k \in 1..Len(rule_lines) |-> RuleSteps(rule_lines[k])])

AllSeqSteps(text) ==
    LET seq_lines == SeqLines(text)
    IN  Flatten([k \in 1..Len(seq_lines) |-> SeqSteps(seq_lines[k])])

\* The error of the earliest failing step in the fixed order, Unset when no
\* step fails, from the number of sections and the outcomes of the steps
EarliestFailure(section_count, rule_steps, seq_steps) ==
    IF section_count # 2
    THEN Err("MalformedInput", "Input must have exactly 2 sections", NoLine)
    ELSE FirstErr(rule_steps \o seq_steps)

\* C25: parse_input returns the error of the earliest failing step in a
\* fixed order: the section-count check first, then the rule lines from top
\* to bottom (within a line the two-token format check, then the before
\* token, then the after token), then the sequence lines from top to
\* bottom; so a text with both a bad rule line and a bad sequence token fails
\* with the rule's error, and a wrong section count masks every token error.
C25_EarliestFailureWins ==
    Parsed =>
        LET section_count == SectionCount(input)
            rule_steps == AllRuleSteps(input)
            seq_steps == AllSeqSteps(input)
            failure == EarliestFailure(section_count, rule_steps, seq_steps)
            rule_failure == FirstErr(rule_steps)
            seq_failure == FirstErr(seq_steps)
        IN  /\ IF failure = Unset THEN IsOk(ret_parse) ELSE ret_parse = failure
            /\ (section_count = 2 /\ rule_failure # Unset /\ seq_failure # Unset)
                   => (ret_parse = rule_failure)
            /\ (section_count # 2)
                   => (ret_parse.tag = "Err" /\ ret_parse.kind = "MalformedInput")

\* C25 witness: a rule line whose before token is a number and whose after
\* token is not, and a sequence token that fails in a different way; the
\* error returned is the one of the after token.
C25_Witness ==
    /\ pc = "parsed"
    /\ SectionCount(input) = 2
    /\ Len(AllRuleSteps(input)) = 2
    /\ IsOk(AllRuleSteps(input)[1])
    /\ IsErr(AllRuleSteps(input)[2])
    /\ FirstErr(AllSeqSteps(input)) # Unset
    /\ FirstErr(AllSeqSteps(input)).kind # AllRuleSteps(input)[2].kind
    /\ ret_parse = AllRuleSteps(input)[2]

\* C27: every sequence in the result of a successful parse_input has at
\* least one element (a sequence line always yields at least one token, and
\* an empty token is a parse error), so solve_part1 and solve_part1_naive
\* never fail with the empty-sequence error of get_middle_page: their only
\* failures are parse failures.
C27_NoEmptySequence ==
    /\ (pc \in {"parsed", "solved", "done"} /\ IsOk(ret_parse)) =>
           \A k \in 1..Len(ret_parse.val.sequences) :
               Len(ret_parse.val.sequences[k]) >= 1
    /\ (pc \in {"solved", "done"} /\ IsErr(ret_solve)) =>
           /\ ret_solve.kind # "EmptySequence"
           /\ ret_solve = ret_parse
    /\ (pc = "done" /\ IsErr(ret_solve_naive)) =>
           /\ ret_solve_naive.kind # "EmptySequence"
           /\ ret_solve_naive = ret_parse

\* C27 witness: both solvers have returned a sum for a text with a sequence
\* of a single page, which is its own middle page.
C27_Witness ==
    /\ pc = "done"
    /\ IsOk(ret_parse)
    /\ \E k \in 1..Len(ret_parse.val.sequences) :
           Len(ret_parse.val.sequences[k]) = 1
    /\ IsOk(ret_solve)
    /\ IsOk(ret_solve_naive)
    /\ ret_solve.val > 0

-----------------------------------------------------------------------------
(* Day 1, "Historian Hysteria" (src/day01/src/lib.rs): parse_input and the  *)
(* two similarity scores.  The numbers, the counts and the scores are i32.  *)

MaxDay01Lines == 3

\* str::split_whitespace: the maximal runs of characters that are not
\* whitespace, in order
RECURSIVE split_whitespace(_)
split_whitespace(s) ==
    LET t == trim_start(s)
    IN  IF t = <<>> THEN <<>>
        ELSE LET stops == {i \in 1..Len(t) : is_whitespace(t[i])}
                 n == IF stops = {} THEN Len(t)
                      ELSE (CHOOSE i \in stops : \A j \in stops : i <= j) - 1
             IN  <<SubSeq(t, 1, n)>> \o split_whitespace(SubSeq(t, n + 1, Len(t)))

\* i32::MAX = 2147483647 and the magnitude of i32::MIN, digit by digit
I32MaxDigits == <<2, 1, 4, 7, 4, 8, 3, 6, 4, 7>>

I32MinDigits == <<2, 1, 4, 7, 4, 8, 3, 6, 4, 8>>

\* The digits stand for a number above the limit
exceeds(ds, limit) ==
    LET sig == strip_zeros(ds)
    IN  \/ Len(sig) > Len(limit)
        \/ /\ Len(sig) = Len(limit)
           /\ \E k \in 1..Len(sig) :
                 /\ sig[k] > limit[k]
                 /\ \A h \in 1..(k - 1) : sig[h] = limit[h]

\* The negative number of a digit string, built downwards as from_str does
RECURSIVE neg_digits_value(_)
neg_digits_value(ds) ==
    IF ds = <<>> THEN 0
    ELSE neg_digits_value(SubSeq(ds, 1, Len(ds) - 1)) * 10 - ds[Len(ds)]

\* str::parse::<i32>: empty -> Empty; a lone sign -> InvalidDigit; one leading
\* '+' or '-' is accepted.  The characters are read left to right as in
\* parse_u32, building the value upwards (PosOverflow) or, after a '-',
\* downwards (NegOverflow): of an overflow and a character that is no digit,
\* the one met first is reported.
parse_i32(src) ==
    IF src = <<>>
    THEN ParseIntError("Empty", "cannot parse integer from empty string")
    ELSE LET neg == src[1] = "-"
             body == IF src[1] \in {"+", "-"} THEN Tail(src) ELSE src
             n == digits_read(body)
             ds == [k \in 1..n |-> to_digit(body[k])]
         IN  IF body = <<>>
             THEN ParseIntError("InvalidDigit", "invalid digit found in string")
             ELSE IF neg /\ exceeds(ds, I32MinDigits)
             THEN ParseIntError("NegOverflow",
                                "number too small to fit in target type")
             ELSE IF ~neg /\ exceeds(ds, I32MaxDigits)
             THEN ParseIntError("PosOverflow",
                                "number too large to fit in target type")
             ELSE IF n < Len(body)
             THEN ParseIntError("InvalidDigit", "invalid digit found in string")
             ELSE IF neg THEN Ok(neg_digits_value(ds))
             ELSE Ok(digits_value(ds))

\* "Line must contain exactly two numbers: '{line}'": the text before the
\* line and the text after it
TwoNumbersMsg == "Line must contain exactly two numbers: '"

TwoNumbersEnd == "'"

\* The loop of parse_input over the lines: a line without a token is skipped,
\* a line of two tokens adds a number to each list, any other line is an error
RECURSIVE day01_parse_lines(_, _, _)
day01_parse_lines(ls, left_nums, right_nums) ==
    IF ls = <<>> THEN Ok([left |-> left_nums, right |-> right_nums])
    ELSE LET parts == split_whitespace(Head(ls))
         IN  IF parts = <<>>
             THEN day01_parse_lines(Tail(ls), left_nums, right_nums)
             ELSE IF Len(parts) = 2
             THEN LET l == parse_i32(parts[1])
                  IN  IF IsErr(l) THEN l
                      ELSE LET r == parse_i32(parts[2])
                           IN  IF IsErr(r) THEN r
                               ELSE day01_parse_lines(Tail(ls),
                                                      Append(left_nums, l.val),
                                                      Append(right_nums, r.val))
             ELSE ErrAround("LineFormat", TwoNumbersMsg, Head(ls), TwoNumbersEnd)

day01_parse_input(text) == day01_parse_lines(lines(text), <<>>, <<>>)

\* The loop of build_frequency_map over the numbers still to count:
\* *counts.entry(num).or_insert(0) += 1, the counts being i32
RECURSIVE count_from(_, _, _)
count_from(counts, nums, overflow_checks) ==
    IF nums = <<>> THEN Ok(counts)
    ELSE LET num == Head(nums)
             count == IF num \in DOMAIN counts THEN counts[num] ELSE 0
             sum == i32_add(count, 1, overflow_checks)
         IN  IF IsPanic(sum) THEN sum
             ELSE count_from((num :> sum.val) @@ counts, Tail(nums), overflow_checks)

\* The map from each number of the list to how often it occurs
build_frequency_map(nums, overflow_checks) ==
    count_from(EmptyMap, nums, overflow_checks)

\* The keys of a hash map in the order in which its iterator yields them.  The
\* order is that of the buckets, which the program does not choose: `order`
\* lists the numbers in it, each number once.
iter_keys(m, order) == SelectSeq(order, LAMBDA n : n \in DOMAIN m)

\* left_counts.iter().map(|(&left_num, &left_freq)| left_num * left_freq *
\* right_freq).sum(): one product after the other is computed and added to the
\* sum, from 0, over the keys still to visit
RECURSIVE similarity_sum(_, _, _, _, _)
similarity_sum(acc, keys, left_counts, right_counts, overflow_checks) ==
    IF keys = <<>> THEN Ok(acc)
    ELSE LET left_num == Head(keys)
             left_freq == left_counts[left_num]
             right_freq == IF left_num \in DOMAIN right_counts
                           THEN right_counts[left_num] ELSE 0
             by_left == i32_mul(left_num, left_freq, overflow_checks)
         IN  IF IsPanic(by_left) THEN by_left
             ELSE LET product == i32_mul(by_left.val, right_freq, overflow_checks)
                  IN  IF IsPanic(product) THEN product
                      ELSE LET sum == i32_add(acc, product.val, overflow_checks)
                           IN  IF IsPanic(sum) THEN sum
                               ELSE similarity_sum(sum.val, Tail(keys), left_counts,
                                                   right_counts, overflow_checks)

\* Iterator::sum over numbers of i32, from 0, in the order of the iterator
RECURSIVE sum_seq_from(_, _, _)
sum_seq_from(acc, xs, overflow_checks) ==
    IF xs = <<>> THEN Ok(acc)
    ELSE LET sum == i32_add(acc, Head(xs), overflow_checks)
         IN  IF IsPanic(sum) THEN sum
             ELSE sum_seq_from(sum.val, Tail(xs), overflow_checks)

sum_seq(xs, overflow_checks) == sum_seq_from(0, xs, overflow_checks)

day01_solve_part2(text, overflow_checks, order) ==
    LET parsed == day01_parse_input(text)
    IN  IF IsErr(parsed) THEN parsed
        ELSE LET right_counts == build_frequency_map(parsed.val.right, overflow_checks)
             IN  IF IsPanic(right_counts) THEN right_counts
                 ELSE LET left_counts ==
                              build_frequency_map(parsed.val.left, overflow_checks)
                      IN  IF IsPanic(left_counts) THEN left_counts
                          ELSE similarity_sum(0, iter_keys(left_counts.val, order),
                                              left_counts.val, right_counts.val,
                                              overflow_checks)

\* Itertools::cartesian_product: every (left, right), the left ones outermost
cartesian_product(xs, ys) ==
    [k \in 1..(Len(xs) * Len(ys)) |->
        <<xs[((k - 1) \div Len(ys)) + 1], ys[((k - 1) % Len(ys)) + 1]>>]

\* filter_map(|(&left, &right)| (left == right).then_some(left))
RECURSIVE equal_lefts(_)
equal_lefts(pairs) ==
    IF pairs = <<>> THEN <<>>
    ELSE (IF Head(pairs)[1] = Head(pairs)[2] THEN <<Head(pairs)[1]>> ELSE <<>>)
             \o equal_lefts(Tail(pairs))

day01_solve_part2_naive(text, overflow_checks) ==
    LET parsed == day01_parse_input(text)
    IN  IF IsErr(parsed) THEN parsed
        ELSE sum_seq(equal_lefts(cartesian_product(parsed.val.left,
                                                   parsed.val.right)),
                     overflow_checks)

(* Input texts of Day 1 *)

Day01Nums == {-1, 1, 2}

\* Display of an i32
i32_to_string(n) == IF n < 0 THEN <<"-">> \o to_string(-n) ELSE to_string(n)

\* A line of the two columns, three spaces apart as in the example input
PairLine(a, b) == i32_to_string(a) \o <<" ", " ", " ">> \o i32_to_string(b)

\* Lines that are not two numbers: nothing, only a space, one token, three
\* tokens, a token that is not a number on the left or on the right
OddLines ==
    {<<>>, <<" ">>, <<"1">>, <<"1", " ", "2", " ", "2">>,
     <<"a", " ", "1">>, <<"1", " ", "a">>}

Day01Lines == {PairLine(a, b) : <<a, b>> \in Day01Nums \X Day01Nums} \cup OddLines

Day01Texts == {Join(ls, <<"\n">>) : ls \in SeqsUpTo(Day01Lines, MaxDay01Lines)}

\* Texts of numbers so large that a product of solve_part2 leaves the range of
\* i32 while every sum of solve_part2_naive stays inside it: the same number
\* twice on the left and twice on the right
LargeTexts ==
    {Join(<<PairLine(600000000, 600000000), PairLine(-600000000, -600000000),
            PairLine(600000000, 600000000)>>, <<"\n">>)}

\* The numbers of the left list of a text, none when the text does not parse
left_numbers(text) ==
    LET parsed == day01_parse_input(text)
    IN  IF IsErr(parsed) THEN {}
        ELSE {parsed.val.left[k] : k \in 1..Len(parsed.val.left)}

\* Every order of the numbers of S
Orders(S) ==
    {o \in [1..Cardinality(S) -> S] : \A h, k \in DOMAIN o : h # k => o[h] # o[k]}

(* Driver of the two similarity scores *)

InitDay01 ==
    /\ pc = "day01_start"
    /\ Day03SolveIdle
    /\ Day04Idle
    /\ LoopIdle
    /\ input \in Day01Texts \cup LargeTexts
    /\ Day01Idle
    /\ Day02Idle
    /\ Day03Idle
    /\ Day05Idle

Day01CallSolvePart2 ==
    /\ pc = "day01_start"
    /\ \E overflow_checks \in BOOLEAN, order \in Orders(left_numbers(input)) :
           ret_solve_part2' = day01_solve_part2(input, overflow_checks, order)
    /\ pc' = "day01_solved"
    /\ UNCHANGED <<ret_solve_part2_naive, validVars, textVars, day02Vars, day03Vars,
                   day03SolveVars, day04Vars, loopVars>>

Day01CallSolvePart2Naive ==
    /\ pc = "day01_solved"
    /\ \E overflow_checks \in BOOLEAN :
           ret_solve_part2_naive' = day01_solve_part2_naive(input, overflow_checks)
    /\ pc' = "day01_done"
    /\ UNCHANGED <<ret_solve_part2, validVars, textVars, day02Vars, day03Vars,
                   day03SolveVars, day04Vars, loopVars>>

NextDay01 ==
    \/ Day01CallSolvePart2
    \/ Day01CallSolvePart2Naive

SpecDay01 == InitDay01 /\ [][NextDay01]_vars

(* Claims about Day 1 *)

\* How often n occurs in the list
CountOf(xs, n) == Cardinality({k \in 1..Len(xs) : xs[k] = n})

\* C16: for every input text solve_part2 and solve_part2_naive return the
\* same result: the same error, or the same similarity score.
C16_Part2Agree ==
    (pc = "day01_done") =>
        \A overflow_checks \in BOOLEAN, order \in Orders(left_numbers(input)) :
            day01_solve_part2(input, overflow_checks, order)
                = day01_solve_part2_naive(input, overflow_checks)

-----------------------------------------------------------------------------
(* Day 2, "Red-Nosed Reports" (src/day02/src/lib.rs): parse_input, the two  *)
(* safety checks, the Problem Dampener and the three counts.  The levels    *)
(* and their differences are i32.                                           *)

MaxLevel == 5
MaxReportLen == 4

\* shared::input::parse_lines: the lines that are not blank
parse_lines(text) == SelectSeq(lines(text), LAMBDA l : trim(l) # <<>>)

\* .map(|s| s.parse()).collect::<Result<Vec<i32>, _>>(): the numbers of the
\* tokens up to the first Err, which is returned in their place
RECURSIVE parse_levels(_)
parse_levels(toks) ==
    IF toks = <<>> THEN Ok(<<>>)
    ELSE LET r == parse_i32(Head(toks))
         IN  IF IsErr(r) THEN r
             ELSE LET others == parse_levels(Tail(toks))
                  IN  IF IsErr(others) THEN others ELSE Ok(<<r.val>> \o others.val)

\* The loop of parse_input over the lines: one report per line
RECURSIVE day02_parse_reports(_)
day02_parse_reports(ls) ==
    IF ls = <<>> THEN Ok(<<>>)
    ELSE LET levels == parse_levels(split_whitespace(Head(ls)))
         IN  IF IsErr(levels) THEN levels
             ELSE LET others == day02_parse_reports(Tail(ls))
                  IN  IF IsErr(others) THEN others
                      ELSE Ok(<<levels.val>> \o others.val)

day02_parse_input(text) == day02_parse_reports(parse_lines(text))

\* The closure of is_safe over the windows from Rust index k on; direction is
\* <<>> for None and <<b>> for Some(b); `all` stops at the first false
RECURSIVE is_safe_windows(_, _, _, _)
is_safe_windows(levels, k, direction, overflow_checks) ==
    IF k + 2 > Len(levels) THEN Ok(TRUE)
    ELSE LET diff == i32_sub(levels[k + 2], levels[k + 1], overflow_checks)
         IN  IF IsPanic(diff) THEN diff
             ELSE LET abs == i32_abs(diff.val, overflow_checks)
                      is_increasing == diff.val > 0
                  IN  IF IsPanic(abs) THEN abs
                      ELSE IF abs.val < 1 \/ abs.val > 3 THEN Ok(FALSE)
                      ELSE IF direction = <<>>
                      THEN is_safe_windows(levels, k + 1, <<is_increasing>>,
                                           overflow_checks)
                      ELSE IF direction[1] = is_increasing
                      THEN is_safe_windows(levels, k + 1, direction, overflow_checks)
                      ELSE Ok(FALSE)

is_safe(levels, overflow_checks) ==
    is_safe_windows(levels, 0, <<>>, overflow_checks)

\* report.windows(2).map(|w| w[1] - w[0]).collect(), over the windows from
\* Rust index k on
RECURSIVE diffs_from(_, _, _)
diffs_from(levels, k, overflow_checks) ==
    IF k + 2 > Len(levels) THEN Ok(<<>>)
    ELSE LET diff == i32_sub(levels[k + 2], levels[k + 1], overflow_checks)
         IN  IF IsPanic(diff) THEN diff
             ELSE LET others == diffs_from(levels, k + 1, overflow_checks)
                  IN  IF IsPanic(others) THEN others
                      ELSE Ok(<<diff.val>> \o others.val)

\* diffs.iter().all(|&d| d.abs() >= 1 && d.abs() <= 3)
RECURSIVE valid_range_of(_, _)
valid_range_of(diffs, overflow_checks) ==
    IF diffs = <<>> THEN Ok(TRUE)
    ELSE LET abs == i32_abs(Head(diffs), overflow_checks)
         IN  IF IsPanic(abs) THEN abs
             ELSE IF abs.val >= 1 /\ abs.val <= 3
             THEN valid_range_of(Tail(diffs), overflow_checks)
             ELSE Ok(FALSE)

is_safe_functional(levels, overflow_checks) ==
    LET diffs == diffs_from(levels, 0, overflow_checks)
    IN  IF IsPanic(diffs) THEN diffs
        ELSE LET valid_range == valid_range_of(diffs.val, overflow_checks)
                 monotonic == \/ \A k \in 1..Len(diffs.val) : diffs.val[k] > 0
                              \/ \A k \in 1..Len(diffs.val) : diffs.val[k] < 0
             IN  IF IsPanic(valid_range) THEN valid_range
                 ELSE Ok(valid_range.val /\ monotonic)

\* report[..i].iter().chain(report[i + 1..].iter()): the report without the
\* level at Rust index i
modified(levels, i) == SubSeq(levels, 1, i) \o SubSeq(levels, i + 2, Len(levels))

\* The loop of is_safe_with_dampener from Rust index i on, up to index last:
\* true at the first i whose removal leaves a safe report
RECURSIVE try_removing(_, _, _, _)
try_removing(levels, i, last, overflow_checks) ==
    IF i > last THEN Ok(FALSE)
    ELSE LET safe == is_safe(modified(levels, i), overflow_checks)
         IN  IF IsPanic(safe) THEN safe
             ELSE IF safe.val THEN Ok(TRUE)
             ELSE try_removing(levels, i + 1, last, overflow_checks)

\* true at once for a safe report; else the loop over i in 0..report.len()
is_safe_with_dampener(levels, overflow_checks) ==
    LET safe == is_safe(levels, overflow_checks)
    IN  IF IsPanic(safe) THEN safe
        ELSE IF safe.val THEN Ok(TRUE)
        ELSE try_removing(levels, 0, Len(levels) - 1, overflow_checks)

\* iter().filter(check).count() over what the check returns for the reports,
\* in their order: the number of those it accepts, or its first panic
count_accepted(checked) ==
    LET panics == {k \in 1..Len(checked) : IsPanic(checked[k])}
    IN  IF panics # {}
        THEN checked[CHOOSE k \in panics : \A j \in panics : k <= j]
        ELSE Ok(Cardinality({k \in 1..Len(checked) : checked[k].val}))

day02_solve_part1(text, overflow_checks) ==
    LET reports == day02_parse_input(text)
    IN  IF IsErr(reports) THEN reports
        ELSE count_accepted([k \in 1..Len(reports.val) |->
                                is_safe(reports.val[k], overflow_checks)])

day02_solve_part1_functional(text, overflow_checks) ==
    LET reports == day02_parse_input(text)
    IN  IF IsErr(reports) THEN reports
        ELSE count_accepted([k \in 1..Len(reports.val) |->
                                is_safe_functional(reports.val[k], overflow_checks)])

day02_solve_part2(text, overflow_checks) ==
    LET reports == day02_parse_input(text)
    IN  IF IsErr(reports) THEN reports
        ELSE count_accepted([k \in 1..Len(reports.val) |->
                                is_safe_with_dampener(reports.val[k], overflow_checks)])

(* Inputs of Day 2 *)

Levels == 1..MaxLevel

Reports == SeqsUpTo(Levels, MaxReportLen)

\* Reports with levels at the ends of i32, where a difference of two
\* neighbours leaves the range: behind a difference of 0, between the only two
\* levels, and before a level whose removal leaves a safe report
LargeReports ==
    {<<1, 1, I32_MAX, -2>>, <<I32_MAX, -I32_MAX>>, <<1, 2, -I32_MAX>>}

\* A report as a line of text: the levels, one space apart
ReportLine(levels) ==
    Join([k \in 1..Len(levels) |-> i32_to_string(levels[k])], <<" ">>)

\* What follows the line of the report in the text: nothing; a safe report; a
\* blank line, an unsafe report that the dampener saves and a final newline;
\* a line that is not a report
Day02Tails ==
    {<<>>,
     <<"\n", "7", " ", "6", " ", "4", " ", "2", " ", "1">>,
     <<"\n", "\n", "1", " ", "3", " ", "2", " ", "4", " ", "5", "\n">>,
     <<"\n", "1", " ", "a">>}

(* Driver of the safety checks and the counts *)

InitDay02 ==
    /\ pc = "day02_start"
    /\ Day03SolveIdle
    /\ Day04Idle
    /\ LoopIdle
    /\ report \in Reports \cup LargeReports
    /\ input \in {ReportLine(report) \o tail : tail \in Day02Tails}
    /\ ret_safe = Unset
    /\ ret_safe_functional = Unset
    /\ ret_dampener = Unset
    /\ ret_count = Unset
    /\ ret_count_functional = Unset
    /\ ret_count_dampener = Unset
    /\ Day01Idle
    /\ Day03Idle
    /\ Day05Idle

CallIsSafe ==
    /\ pc = "day02_start"
    /\ \E overflow_checks \in BOOLEAN :
           ret_safe' = is_safe(report, overflow_checks)
    /\ pc' = "day02_safe"
    /\ UNCHANGED <<report, ret_safe_functional, ret_dampener, ret_count,
                   ret_count_functional, ret_count_dampener>>
    /\ UNCHANGED <<validVars, textVars, day01Vars, day03Vars, day03SolveVars, day04Vars, loopVars>>

CallIsSafeFunctional ==
    /\ pc = "day02_safe"
    /\ \E overflow_checks \in BOOLEAN :
           ret_safe_functional' = is_safe_functional(report, overflow_checks)
    /\ pc' = "day02_functional"
    /\ UNCHANGED <<report, ret_safe, ret_dampener, ret_count,
                   ret_count_functional, ret_count_dampener>>
    /\ UNCHANGED <<validVars, textVars, day01Vars, day03Vars, day03SolveVars, day04Vars, loopVars>>

CallIsSafeWithDampener ==
    /\ pc = "day02_functional"
    /\ \E overflow_checks \in BOOLEAN :
           ret_dampener' = is_safe_with_dampener(report, overflow_checks)
    /\ pc' = "day02_dampener"
    /\ UNCHANGED <<report, ret_safe, ret_safe_functional, ret_count,
                   ret_count_functional, ret_count_dampener>>
    /\ UNCHANGED <<validVars, textVars, day01Vars, day03Vars, day03SolveVars, day04Vars, loopVars>>

Day02CallSolvePart1 ==
    /\ pc = "day02_dampener"
    /\ \E overflow_checks \in BOOLEAN :
           ret_count' = day02_solve_part1(input, overflow_checks)
    /\ pc' = "day02_part1"
    /\ UNCHANGED <<report, ret_safe, ret_safe_functional, ret_dampener,
                   ret_count_functional, ret_count_dampener>>
    /\ UNCHANGED <<validVars, textVars, day01Vars, day03Vars, day03SolveVars, day04Vars, loopVars>>

Day02CallSolvePart1Functional ==
    /\ pc = "day02_part1"
    /\ \E overflow_checks \in BOOLEAN :
           ret_count_functional' = day02_solve_part1_functional(input, overflow_checks)
    /\ pc' = "day02_part1_functional"
    /\ UNCHANGED <<report, ret_safe, ret_safe_functional, ret_dampener,
                   ret_count, ret_count_dampener>>
    /\ UNCHANGED <<validVars, textVars, day01Vars, day03Vars, day03SolveVars, day04Vars, loopVars>>

Day02CallSolvePart2 ==
    /\ pc = "day02_part1_functional"
    /\ \E overflow_checks \in BOOLEAN :
           ret_count_dampener' = day02_solve_part2(input, overflow_checks)
    /\ pc' = "day02_done"
    /\ UNCHANGED <<report, ret_safe, ret_safe_functional, ret_dampener,
                   ret_count, ret_count_functional>>
    /\ UNCHANGED <<validVars, textVars, day01Vars, day03Vars, day03SolveVars, day04Vars, loopVars>>

NextDay02 ==
    \/ CallIsSafe
    \/ CallIsSafeFunctional
    \/ CallIsSafeWithDampener
    \/ Day02CallSolvePart1
    \/ Day02CallSolvePart1Functional
    \/ Day02CallSolvePart2

SpecDay02 == InitDay02 /\ [][NextDay02]_vars

(* Claims about Day 2 *)

\* C17: for every report, the empty and the one-level reports among them,
\* is_safe and is_safe_functional return the same boolean, and for every
\* input text solve_part1 and solve_part1_functional return the same result.
C17_SafeChecksAgree ==
    (pc = "day02_done") =>
        \A overflow_checks \in BOOLEAN :
            /\ is_safe(report, overflow_checks)
                   = is_safe_functional(report, overflow_checks)
            /\ day02_solve_part1(input, overflow_checks)
                   = day02_solve_part1_functional(input, overflow_checks)

\* b - a is at least 1 and at most 3, as integers without a width
StepUp(a, b) == a < b /\ \E d \in 1..3 : a <= I32_MAX - d /\ b = a + d

\* Every two neighbours differ by at least 1 and at most 3, and every two
\* differences have the same sign
SafeReport(levels) ==
    \/ \A k \in 1..(Len(levels) - 1) : StepUp(levels[k], levels[k + 1])
    \/ \A k \in 1..(Len(levels) - 1) : StepUp(levels[k + 1], levels[k])

\* C18: is_safe returns true exactly when every difference of adjacent levels
\* is between 1 and 3 in absolute value and all differences have the same
\* sign; a report of fewer than two levels is safe.
C18_SafeIffGradual ==
    (pc = "day02_done") =>
        /\ ret_safe = Ok(SafeReport(report))
        /\ (Len(report) < 2) => (ret_safe = Ok(TRUE))

\* The report without the level at position i
Without(levels, i) == [k \in 1..(Len(levels) - 1) |->
                          IF k < i THEN levels[k] ELSE levels[k + 1]]

\* C19: is_safe_with_dampener returns true exactly when the report is safe
\* as it is or taking out the level at one position leaves a safe report; a
\* report that only the removal of two or more levels would make safe is
\* turned down.
C19_DampenerOneRemoval ==
    (pc = "day02_done") =>
        ret_dampener =
            Ok(\/ SafeReport(report)
               \/ \E i \in 1..Len(report) : SafeReport(Without(report, i)))

\* C30: removing the first or the last level of a safe report leaves a safe
\* report, so for every non-empty report is_safe_with_dampener(report) equals
\* "some single removal gives a safe report" (the initial is_safe check only
\* decides the empty report), every report of at most two levels is
\* dampener-safe, and solve_part2(input) >= solve_part1(input) for every
\* input.
C30_DampenerBySingleRemoval ==
    (pc = "day02_done") =>
        /\ (ret_safe = Ok(TRUE) /\ report # <<>>) =>
               \A overflow_checks \in BOOLEAN :
                   /\ is_safe(Without(report, 1), overflow_checks) = Ok(TRUE)
                   /\ is_safe(Without(report, Len(report)), overflow_checks) = Ok(TRUE)
        /\ (report # <<>>) =>
               \A overflow_checks \in BOOLEAN :
                   ret_dampener =
                       Ok(\E i \in 1..Len(report) :
                              is_safe(Without(report, i), overflow_checks) = Ok(TRUE))
        /\ (report = <<>>) => (ret_dampener = Ok(TRUE))
        /\ (Len(report) <= 2) => (ret_dampener = Ok(TRUE))
        /\ \A overflow_checks \in BOOLEAN :
               LET part1 == day02_solve_part1(input, overflow_checks)
                   part2 == day02_solve_part2(input, overflow_checks)
               IN  /\ IsOk(part1) = IsOk(part2)
                   /\ IsOk(part1) => (part2.val >= part1.val)

-----------------------------------------------------------------------------
(* Day 3, "Mull It Over" (src/day03/src/lib.rs): the scan of                *)
(* extract_enabled_mul_instructions over the matches of INSTRUCTION_PATTERN, *)
(* one match per step.  \d of the patterns matches every decimal digit of   *)
(* Unicode, parse::<u32> reads the ASCII digits only.                        *)

MaxMemPieces == 4

\* The text s holds the literal lit at position i
literal_at(s, i, lit) ==
    /\ i + Len(lit) - 1 <= Len(s)
    /\ SubSeq(s, i, i + Len(lit) - 1) = lit

\* The decimal digits outside ASCII: the characters of general category Nd
\* above U+007F (Unicode 16.0), each written by its code point
Nd_Names ==
    {"U+0660", "U+0661", "U+0662", "U+0663", "U+0664", "U+0665", "U+0666", "U+0667",
     "U+0668", "U+0669", "U+06F0", "U+06F1", "U+06F2", "U+06F3", "U+06F4", "U+06F5",
     "U+06F6", "U+06F7", "U+06F8", "U+06F9", "U+07C0", "U+07C1", "U+07C2", "U+07C3",
     "U+07C4", "U+07C5", "U+07C6", "U+07C7", "U+07C8", "U+07C9", "U+0966", "U+0967",
     "U+0968", "U+0969", "U+096A", "U+096B", "U+096C", "U+096D", "U+096E", "U+096F",
     "U+09E6", "U+09E7", "U+09E8", "U+09E9", "U+09EA", "U+09EB", "U+09EC", "U+09ED",
     "U+09EE", "U+09EF", "U+0A66", "U+0A67", "U+0A68", "U+0A69", "U+0A6A", "U+0A6B",
     "U+0A6C", "U+0A6D", "U+0A6E", "U+0A6F", "U+0AE6", "U+0AE7", "U+0AE8", "U+0AE9",
     "U+0AEA", "U+0AEB", "U+0AEC", "U+0AED", "U+0AEE", "U+0AEF", "U+0B66", "U+0B67",
     "U+0B68", "U+0B69", "U+0B6A", "U+0B6B", "U+0B6C", "U+0B6D", "U+0B6E", "U+0B6F",
     "U+0BE6", "U+0BE7", "U+0BE8", "U+0BE9", "U+0BEA", "U+0BEB", "U+0BEC", "U+0BED",
     "U+0BEE", "U+0BEF", "U+0C66", "U+0C67", "U+0C68", "U+0C69", "U+0C6A", "U+0C6B",
     "U+0C6C", "U+0C6D", "U+0C6E", "U+0C6F", "U+0CE6", "U+0CE7", "U+0CE8", "U+0CE9",
     "U+0CEA", "U+0CEB", "U+0CEC", "U+0CED", "U+0CEE", "U+0CEF", "U+0D66", "U+0D67",
     "U+0D68", "U+0D69", "U+0D6A", "U+0D6B", "U+0D6C", "U+0D6D", "U+0D6E", "U+0D6F",
     "U+0DE6", "U+0DE7", "U+0DE8", "U+0DE9", "U+0DEA", "U+0DEB", "U+0DEC", "U+0DED",
     "U+0DEE", "U+0DEF", "U+0E50", "U+0E51", "U+0E52", "U+0E53", "U+0E54", "U+0E55",
     "U+0E56", "U+0E57", "U+0E58", "U+0E59", "U+0ED0", "U+0ED1", "U+0ED2", "U+0ED3",
     "U+0ED4", "U+0ED5", "U+0ED6", "U+0ED7", "U+0ED8", "U+0ED9", "U+0F20", "U+0F21",
     "U+0F22", "U+0F23", "U+0F24", "U+0F25", "U+0F26", "U+0F27", "U+0F28", "U+0F29",
     "U+1040", "U+1041", "U+1042", "U+1043", "U+1044", "U+1045", "U+1046", "U+1047",
     "U+1048", "U+1049", "U+1090", "U+1091", "U+1092", "U+1093", "U+1094", "U+1095",
     "U+1096", "U+1097", "U+1098", "U+1099", "U+17E0", "U+17E1", "U+17E2", "U+17E3",
     "U+17E4", "U+17E5", "U+17E6", "U+17E7", "U+17E8", "U+17E9", "U+1810", "U+1811",
     "U+1812", "U+1813", "U+1814", "U+1815", "U+1816", "U+1817", "U+1818", "U+1819",
     "U+1946", "U+1947", "U+1948", "U+1949", "U+194A", "U+194B", "U+194C", "U+194D",
     "U+194E", "U+194F", "U+19D0", "U+19D1", "U+19D2", "U+19D3", "U+19D4", "U+19D5",
     "U+19D6", "U+19D7", "U+19D8", "U+19D9", "U+1A80", "U+1A81", "U+1A82", "U+1A83",
     "U+1A84", "U+1A85", "U+1A86", "U+1A87", "U+1A88", "U+1A89", "U+1A90", "U+1A91",
     "U+1A92", "U+1A93", "U+1A94", "U+1A95", "U+1A96", "U+1A97", "U+1A98", "U+1A99",
     "U+1B50", "U+1B51", "U+1B52", "U+1B53", "U+1B54", "U+1B55", "U+1B56", "U+1B57",
     "U+1B58", "U+1B59", "U+1BB0", "U+1BB1", "U+1BB2", "U+1BB3", "U+1BB4", "U+1BB5",
     "U+1BB6", "U+1BB7", "U+1BB8", "U+1BB9", "U+1C40", "U+1C41", "U+1C42", "U+1C43",
     "U+1C44", "U+1C45", "U+1C46", "U+1C47", "U+1C48", "U+1C49", "U+1C50", "U+1C51",
     "U+1C52", "U+1C53", "U+1C54", "U+1C55", "U+1C56", "U+1C57", "U+1C58", "U+1C59",
     "U+A620", "U+A621", "U+A622", "U+A623", "U+A624", "U+A625", "U+A626", "U+A627",
     "U+A628", "U+A629", "U+A8D0", "U+A8D1", "U+A8D2", "U+A8D3", "U+A8D4", "U+A8D5",
     "U+A8D6", "U+A8D7", "U+A8D8", "U+A8D9", "U+A900", "U+A901", "U+A902", "U+A903",
     "U+A904", "U+A905", "U+A906", "U+A907", "U+A908", "U+A909", "U+A9D0", "U+A9D1",
     "U+A9D2", "U+A9D3", "U+A9D4", "U+A9D5", "U+A9D6", "U+A9D7", "U+A9D8", "U+A9D9",
     "U+A9F0", "U+A9F1", "U+A9F2", "U+A9F3", "U+A9F4", "U+A9F5", "U+A9F6", "U+A9F7",
     "U+A9F8", "U+A9F9", "U+AA50", "U+AA51", "U+AA52", "U+AA53", "U+AA54", "U+AA55",
     "U+AA56", "U+AA57", "U+AA58", "U+AA59", "U+ABF0", "U+ABF1", "U+ABF2", "U+ABF3",
     "U+ABF4", "U+ABF5", "U+ABF6", "U+ABF7", "U+ABF8", "U+ABF9", "U+FF10", "U+FF11",
     "U+FF12", "U+FF13", "U+FF14", "U+FF15", "U+FF16", "U+FF17", "U+FF18", "U+FF19",
     "U+104A0", "U+104A1", "U+104A2", "U+104A3", "U+104A4", "U+104A5", "U+104A6", "U+104A7",
     "U+104A8", "U+104A9", "U+10D30", "U+10D31", "U+10D32", "U+10D33", "U+10D34", "U+10D35",
     "U+10D36", "U+10D37", "U+10D38", "U+10D39", "U+10D40", "U+10D41", "U+10D42", "U+10D43",
     "U+10D44", "U+10D45", "U+10D46", "U+10D47", "U+10D48", "U+10D49", "U+11066", "U+11067",
     "U+11068", "U+11069", "U+1106A", "U+1106B", "U+1106C", "U+1106D", "U+1106E", "U+1106F",
     "U+110F0", "U+110F1", "U+110F2", "U+110F3", "U+110F4", "U+110F5", "U+110F6", "U+110F7",
     "U+110F8", "U+110F9", "U+11136", "U+11137", "U+11138", "U+11139", "U+1113A", "U+1113B",
     "U+1113C", "U+1113D", "U+1113E", "U+1113F", "U+111D0", "U+111D1", "U+111D2", "U+111D3",
     "U+111D4", "U+111D5", "U+111D6", "U+111D7", "U+111D8", "U+111D9", "U+112F0", "U+112F1",
     "U+112F2", "U+112F3", "U+112F4", "U+112F5", "U+112F6", "U+112F7", "U+112F8", "U+112F9",
     "U+11450", "U+11451", "U+11452", "U+11453", "U+11454", "U+11455", "U+11456", "U+11457",
     "U+11458", "U+11459", "U+114D0", "U+114D1", "U+114D2", "U+114D3", "U+114D4", "U+114D5",
     "U+114D6", "U+114D7", "U+114D8", "U+114D9", "U+11650", "U+11651", "U+11652", "U+11653",
     "U+11654", "U+11655", "U+11656", "U+11657", "U+11658", "U+11659", "U+116C0", "U+116C1",
     "U+116C2", "U+116C3", "U+116C4", "U+116C5", "U+116C6", "U+116C7", "U+116C8", "U+116C9",
     "U+116D0", "U+116D1", "U+116D2", "U+116D3", "U+116D4", "U+116D5", "U+116D6", "U+116D7",
     "U+116D8", "U+116D9", "U+116DA", "U+116DB", "U+116DC", "U+116DD", "U+116DE", "U+116DF",
     "U+116E0", "U+116E1", "U+116E2", "U+116E3", "U+11730", "U+11731", "U+11732", "U+11733",
     "U+11734", "U+11735", "U+11736", "U+11737", "U+11738", "U+11739", "U+118E0", "U+118E1",
     "U+118E2", "U+118E3", "U+118E4", "U+118E5", "U+118E6", "U+118E7", "U+118E8", "U+118E9",
     "U+11950", "U+11951", "U+11952", "U+11953", "U+11954", "U+11955", "U+11956", "U+11957",
     "U+11958", "U+11959", "U+11BF0", "U+11BF1", "U+11BF2", "U+11BF3", "U+11BF4", "U+11BF5",
     "U+11BF6", "U+11BF7", "U+11BF8", "U+11BF9", "U+11C50", "U+11C51", "U+11C52", "U+11C53",
     "U+11C54", "U+11C55", "U+11C56", "U+11C57", "U+11C58", "U+11C59", "U+11D50", "U+11D51",
     "U+11D52", "U+11D53", "U+11D54", "U+11D55", "U+11D56", "U+11D57", "U+11D58", "U+11D59",
     "U+11DA0", "U+11DA1", "U+11DA2", "U+11DA3", "U+11DA4", "U+11DA5", "U+11DA6", "U+11DA7",
     "U+11DA8", "U+11DA9", "U+11F50", "U+11F51", "U+11F52", "U+11F53", "U+11F54", "U+11F55",
     "U+11F56", "U+11F57", "U+11F58", "U+11F59",
     "U+16130", "U+16131", "U+16132", "U+16133", "U+16134", "U+16135", "U+16136", "U+16137",
     "U+16138", "U+16139", "U+16A60", "U+16A61", "U+16A62", "U+16A63",
     "U+16A64", "U+16A65", "U+16A66", "U+16A67", "U+16A68", "U+16A69", "U+16AC0", "U+16AC1",
     "U+16AC2", "U+16AC3", "U+16AC4", "U+16AC5", "U+16AC6", "U+16AC7", "U+16AC8", "U+16AC9",
     "U+16B50", "U+16B51", "U+16B52", "U+16B53", "U+16B54", "U+16B55", "U+16B56", "U+16B57",
     "U+16B58", "U+16B59", "U+16D70", "U+16D71", "U+16D72", "U+16D73", "U+16D74", "U+16D75",
     "U+16D76", "U+16D77", "U+16D78", "U+16D79", "U+1CCF0", "U+1CCF1", "U+1CCF2", "U+1CCF3",
     "U+1CCF4", "U+1CCF5", "U+1CCF6", "U+1CCF7", "U+1CCF8", "U+1CCF9", "U+1D7CE", "U+1D7CF",
     "U+1D7D0", "U+1D7D1", "U+1D7D2", "U+1D7D3", "U+1D7D4", "U+1D7D5", "U+1D7D6", "U+1D7D7",
     "U+1D7D8", "U+1D7D9", "U+1D7DA", "U+1D7DB", "U+1D7DC", "U+1D7DD", "U+1D7DE", "U+1D7DF",
     "U+1D7E0", "U+1D7E1", "U+1D7E2", "U+1D7E3", "U+1D7E4", "U+1D7E5", "U+1D7E6", "U+1D7E7",
     "U+1D7E8", "U+1D7E9", "U+1D7EA", "U+1D7EB", "U+1D7EC", "U+1D7ED", "U+1D7EE", "U+1D7EF",
     "U+1D7F0", "U+1D7F1", "U+1D7F2", "U+1D7F3", "U+1D7F4", "U+1D7F5", "U+1D7F6", "U+1D7F7",
     "U+1D7F8", "U+1D7F9", "U+1D7FA", "U+1D7FB", "U+1D7FC", "U+1D7FD", "U+1D7FE", "U+1D7FF",
     "U+1E140", "U+1E141", "U+1E142", "U+1E143", "U+1E144", "U+1E145", "U+1E146", "U+1E147",
     "U+1E148", "U+1E149", "U+1E2F0", "U+1E2F1", "U+1E2F2", "U+1E2F3", "U+1E2F4", "U+1E2F5",
     "U+1E2F6", "U+1E2F7", "U+1E2F8", "U+1E2F9", "U+1E4F0", "U+1E4F1", "U+1E4F2", "U+1E4F3",
     "U+1E4F4", "U+1E4F5", "U+1E4F6", "U+1E4F7", "U+1E4F8", "U+1E4F9", "U+1E5F1", "U+1E5F2",
     "U+1E5F3", "U+1E5F4", "U+1E5F5", "U+1E5F6", "U+1E5F7", "U+1E5F8", "U+1E5F9", "U+1E5FA",
     "U+1E950", "U+1E951", "U+1E952", "U+1E953", "U+1E954", "U+1E955", "U+1E956", "U+1E957",
     "U+1E958", "U+1E959", "U+1FBF0", "U+1FBF1", "U+1FBF2", "U+1FBF3", "U+1FBF4", "U+1FBF5",
     "U+1FBF6", "U+1FBF7", "U+1FBF8", "U+1FBF9"}

\* \d of the regex crate, which is Unicode-aware: any character of general
\* category Nd
perl_digit(c) == is_digit(c) \/ c \in Nd_Names

\* The number of characters \d matches in a row from position i on
RECURSIVE digit_run(_, _)
digit_run(s, i) ==
    IF i > Len(s) \/ ~perl_digit(s[i]) THEN 0 ELSE 1 + digit_run(s, i + 1)

NoMatch == [kind |-> "none", len |-> 0, x |-> <<>>, y |-> <<>>]

\* mul\((\d{1,3}),(\d{1,3})\) at position i: "mul(", one to three digits, a
\* comma, one to three digits, ")"; x and y are the two capture groups
MUL_PATTERN(s, i) ==
    IF ~literal_at(s, i, <<"m", "u", "l", "(">>) THEN NoMatch
    ELSE LET n1 == digit_run(s, i + 4)
         IN  IF n1 \notin 1..3 \/ ~literal_at(s, i + 4 + n1, <<",">>) THEN NoMatch
             ELSE LET n2 == digit_run(s, i + 5 + n1)
                  IN  IF n2 \notin 1..3 \/ ~literal_at(s, i + 5 + n1 + n2, <<")">>)
                      THEN NoMatch
                      ELSE [kind |-> "mul", len |-> n1 + n2 + 6,
                            x |-> SubSeq(s, i + 4, i + 3 + n1),
                            y |-> SubSeq(s, i + 5 + n1, i + 4 + n1 + n2)]

\* (?:mul\((\d{1,3}),(\d{1,3})\)|do\(\)|don't\(\)) at position i
INSTRUCTION_PATTERN(s, i) ==
    LET mul == MUL_PATTERN(s, i)
    IN  IF mul # NoMatch THEN mul
    ELSE IF literal_at(s, i, <<"d", "o", "(", ")">>)
    THEN [kind |-> "do()", len |-> 4, x |-> <<>>, y |-> <<>>]
    ELSE IF literal_at(s, i, <<"d", "o", "n", "'", "t", "(", ")">>)
    THEN [kind |-> "don't()", len |-> 7, x |-> <<>>, y |-> <<>>]
    ELSE NoMatch

\* The position of the leftmost match in s, 0 when there is none
leftmost(s) ==
    LET starts == {i \in 1..Len(s) : INSTRUCTION_PATTERN(s, i) # NoMatch}
    IN  IF starts = {} THEN 0 ELSE CHOOSE i \in starts : \A j \in starts : i <= j

\* What captures_iter yields next on the text not yet scanned, and the text
\* after that match
next_captures(s) ==
    LET i == leftmost(s) IN IF i = 0 THEN NoMatch ELSE INSTRUCTION_PATTERN(s, i)

after_captures(s) ==
    LET i == leftmost(s) IN SubSeq(s, i + INSTRUCTION_PATTERN(s, i).len, Len(s))

(* Memory texts of Day 3 *)

\* Two mul instructions, the two switches, a mul of too many digits, the two
\* halves of an instruction, and a character of no instruction
MemPieces ==
    {<<"m", "u", "l", "(", "2", ",", "4", ")">>,
     <<"m", "u", "l", "(", "3", "5", ",", "1", "0", "7", ")">>,
     <<"d", "o", "(", ")">>,
     <<"d", "o", "n", "'", "t", "(", ")">>,
     <<"m", "u", "l", "(", "1", "2", "3", "4", ",", "5", ")">>,
     <<"m", "u", "l", "(">>,
     <<"7", ",", "8", ")">>,
     <<"x">>}

Memories == {Flatten(ps) : ps \in SeqsUpTo(MemPieces, MaxMemPieces)}

\* A mul whose first operand is ARABIC-INDIC DIGIT THREE, one whose second
\* operand ends in ARABIC-INDIC DIGIT FOUR, the two switches and a mul of ASCII
\* digits
OtherDigitPieces ==
    {<<"m", "u", "l", "(", "U+0663", ",", "4", ")">>,
     <<"m", "u", "l", "(", "2", ",", "1", "U+0664", ")">>,
     <<"d", "o", "(", ")">>,
     <<"d", "o", "n", "'", "t", "(", ")">>,
     <<"m", "u", "l", "(", "2", ",", "4", ")">>}

\* Memory texts with decimal digits outside ASCII
OtherDigitMemories == {Flatten(ps) : ps \in SeqsUpTo(OtherDigitPieces, MaxMemPieces)}

(* The scan, one match per step *)

InitDay03 ==
    /\ pc = "day03_start"
    /\ Day03SolveIdle
    /\ Day04Idle
    /\ LoopIdle
    /\ input \in Memories \cup OtherDigitMemories
    /\ Day01Idle
    /\ Day02Idle
    /\ Day03Idle
    /\ Day05Idle

\* let mut enabled = true; let mut instructions = Vec::new();
\* INSTRUCTION_PATTERN.captures_iter(memory)
EnterExtract ==
    /\ pc = "day03_start"
    /\ unscanned' = input
    /\ enabled' = TRUE
    /\ instructions' = <<>>
    /\ seen' = <<>>
    /\ pc' = "day03_scan"
    /\ UNCHANGED <<ret_extract, validVars, textVars, day01Vars, day02Vars,
                   day03SolveVars, day04Vars, loopVars>>

\* "do()" => enabled = true
ProcessDo ==
    /\ pc = "day03_scan"
    /\ next_captures(unscanned).kind = "do()"
    /\ enabled' = TRUE
    /\ seen' = Append(seen, next_captures(unscanned))
    /\ unscanned' = after_captures(unscanned)
    /\ UNCHANGED <<pc, instructions, ret_extract, validVars, textVars, day01Vars, day02Vars,
                   day03SolveVars, day04Vars, loopVars>>

\* "don't()" => enabled = false
ProcessDont ==
    /\ pc = "day03_scan"
    /\ next_captures(unscanned).kind = "don't()"
    /\ enabled' = FALSE
    /\ seen' = Append(seen, next_captures(unscanned))
    /\ unscanned' = after_captures(unscanned)
    /\ UNCHANGED <<pc, instructions, ret_extract, validVars, textVars, day01Vars, day02Vars,
                   day03SolveVars, day04Vars, loopVars>>

\* _ => if enabled { instructions.push((captures[1].parse()?, captures[2].parse()?)) }
ProcessMul ==
    /\ pc = "day03_scan"
    /\ next_captures(unscanned).kind = "mul"
    /\ LET x == parse_u32(next_captures(unscanned).x)
           y == parse_u32(next_captures(unscanned).y)
       IN  IF enabled /\ IsErr(x)
           THEN /\ ret_extract' = x
                /\ pc' = "day03_done"
                /\ UNCHANGED instructions
           ELSE IF enabled /\ IsErr(y)
           THEN /\ ret_extract' = y
                /\ pc' = "day03_done"
                /\ UNCHANGED instructions
           ELSE /\ instructions' = IF enabled
                                   THEN Append(instructions, <<x.val, y.val>>)
                                   ELSE instructions
                /\ UNCHANGED <<pc, ret_extract>>
    /\ seen' = Append(seen, next_captures(unscanned))
    /\ unscanned' = after_captures(unscanned)
    /\ UNCHANGED <<enabled, validVars, textVars, day01Vars, day02Vars,
                   day03SolveVars, day04Vars, loopVars>>

\* Ok(instructions), once captures_iter has no further match
ReturnInstructions ==
    /\ pc = "day03_scan"
    /\ next_captures(unscanned) = NoMatch
    /\ ret_extract' = Ok(instructions)
    /\ pc' = "day03_done"
    /\ UNCHANGED <<unscanned, enabled, instructions, seen, validVars, textVars,
                   day01Vars, day02Vars, day03SolveVars, day04Vars, loopVars>>

NextDay03 ==
    \/ EnterExtract
    \/ ProcessDo
    \/ ProcessDont
    \/ ProcessMul
    \/ ReturnInstructions

SpecDay03 == InitDay03 /\ [][NextDay03]_vars

(* Claims about Day 3 *)

\* The switches among the first n matches of a history
Switches(h, n) == {k \in 1..n : h[k].kind \in {"do()", "don't()"}}

\* Among the first n matches the most recent do()/don't() is a do(), or there
\* is neither
EnabledAfter(h, n) ==
    \/ Switches(h, n) = {}
    \/ h[CHOOSE k \in Switches(h, n) : \A j \in Switches(h, n) : j <= k].kind = "do()"

\* The number a capture group of one to three digits stands for
RECURSIVE NumberOf(_)
NumberOf(ds) ==
    IF ds = <<>> THEN 0
    ELSE 10 * NumberOf(SubSeq(ds, 1, Len(ds) - 1))
             + (CHOOSE d \in 0..9 : DigitChars[d + 1] = ds[Len(ds)])

\* The operands of the mul matches of a history that come while enabled, in
\* the order of the history
RECURSIVE EnabledMuls(_, _)
EnabledMuls(h, n) ==
    IF n = 0 THEN <<>>
    ELSE EnabledMuls(h, n - 1)
             \o (IF h[n].kind = "mul" /\ EnabledAfter(h, n - 1)
                 THEN << <<NumberOf(h[n].x), NumberOf(h[n].y)>> >>
                 ELSE <<>>)

\* C20: all through the scan of extract_enabled_mul_instructions the state is
\* enabled exactly when the most recent do()/don't() gone through is a do()
\* or there is none (so the scan starts enabled, each do() enables and each
\* don't() disables), the function returns an output, and the output holds the
\* operands of exactly the mul matches gone through while enabled, in the
\* order of the input.
C20_EnabledByLastSwitch ==
    (pc \in {"day03_scan", "day03_done"}) =>
        /\ enabled = EnabledAfter(seen, Len(seen))
        /\ (pc = "day03_done") => IsOk(ret_extract)
        /\ instructions = EnabledMuls(seen, Len(seen))
        /\ (pc = "day03_done") => (ret_extract = Ok(instructions))

-----------------------------------------------------------------------------
(* Day 3: the two extractors and the two solvers as functions of the memory *)

\* The position of the leftmost match of MUL_PATTERN in s, 0 when there is none
leftmost_mul(s) ==
    LET starts == {i \in 1..Len(s) : MUL_PATTERN(s, i) # NoMatch}
    IN  IF starts = {} THEN 0 ELSE CHOOSE i \in starts : \A j \in starts : i <= j

\* (captures[1].parse()?, captures[2].parse()?)
parse_operands(captures) ==
    LET x == parse_u32(captures.x)
    IN  IF IsErr(x) THEN x
        ELSE LET y == parse_u32(captures.y)
             IN  IF IsErr(y) THEN y ELSE Ok(<<x.val, y.val>>)

\* MUL_PATTERN.captures_iter(memory).map(..).collect(): the operands of the
\* matches, left to right and not overlapping, or the first Err
RECURSIVE extract_mul_instructions(_)
extract_mul_instructions(memory) ==
    LET i == leftmost_mul(memory)
    IN  IF i = 0 THEN Ok(<<>>)
        ELSE LET captures == MUL_PATTERN(memory, i)
                 pair == parse_operands(captures)
             IN  IF IsErr(pair) THEN pair
                 ELSE LET rest == extract_mul_instructions(
                                      SubSeq(memory, i + captures.len, Len(memory)))
                      IN  IF IsErr(rest) THEN rest ELSE Ok(<<pair.val>> \o rest.val)

\* The loop of extract_enabled_mul_instructions on the text s not yet
\* scanned, with the flag and the vector as they stand
RECURSIVE scan_enabled(_, _, _)
scan_enabled(s, flag, pushed) ==
    LET captures == next_captures(s)
    IN  IF captures = NoMatch THEN Ok(pushed)
        ELSE IF captures.kind = "do()"
        THEN scan_enabled(after_captures(s), TRUE, pushed)
        ELSE IF captures.kind = "don't()"
        THEN scan_enabled(after_captures(s), FALSE, pushed)
        ELSE IF ~flag
        THEN scan_enabled(after_captures(s), flag, pushed)
        ELSE LET pair == parse_operands(captures)
             IN  IF IsErr(pair) THEN pair
                 ELSE scan_enabled(after_captures(s), flag, Append(pushed, pair.val))

extract_enabled_mul_instructions(memory) == scan_enabled(memory, TRUE, <<>>)

\* instructions.iter().map(|(x, y)| x * y).sum() of u32, from 0, in the order
\* of the vector.  An operand has at most three digits, so that no product
\* leaves u32; the sum of the products can.
RECURSIVE sum_products_from(_, _, _)
sum_products_from(acc, pairs, overflow_checks) ==
    IF pairs = <<>> THEN Ok(acc)
    ELSE LET sum == u32_add(acc, Head(pairs)[1] * Head(pairs)[2], overflow_checks)
         IN  IF IsPanic(sum) THEN sum
             ELSE sum_products_from(sum.val, Tail(pairs), overflow_checks)

sum_products(pairs, overflow_checks) == sum_products_from(0, pairs, overflow_checks)

day03_solve_part1(text, overflow_checks) ==
    LET extracted == extract_mul_instructions(text)
    IN  IF IsErr(extracted) THEN extracted
        ELSE sum_products(extracted.val, overflow_checks)

day03_solve_part2(text, overflow_checks) ==
    LET extracted == extract_enabled_mul_instructions(text)
    IN  IF IsErr(extracted) THEN extracted
        ELSE sum_products(extracted.val, overflow_checks)

InitDay03Solve ==
    /\ pc = "day03_solve_start"
    /\ input \in Memories \cup OtherDigitMemories
    /\ Day01Idle
    /\ Day02Idle
    /\ Day03Idle
    /\ Day03SolveIdle
    /\ Day04Idle
    /\ Day05Idle
    /\ LoopIdle

CallExtractMulInstructions ==
    /\ pc = "day03_solve_start"
    /\ ret_mul' = extract_mul_instructions(input)
    /\ pc' = "day03_extracted"
    /\ UNCHANGED <<ret_enabled_mul, ret_sum, ret_sum_enabled, validVars, textVars,
                   day01Vars, day02Vars, day03Vars, day04Vars, loopVars>>

CallExtractEnabledMulInstructions ==
    /\ pc = "day03_extracted"
    /\ ret_enabled_mul' = extract_enabled_mul_instructions(input)
    /\ pc' = "day03_extracted_enabled"
    /\ UNCHANGED <<ret_mul, ret_sum, ret_sum_enabled, validVars, textVars,
                   day01Vars, day02Vars, day03Vars, day04Vars, loopVars>>

Day03CallSolvePart1 ==
    /\ pc = "day03_extracted_enabled"
    /\ \E overflow_checks \in BOOLEAN :
           ret_sum' = day03_solve_part1(input, overflow_checks)
    /\ pc' = "day03_solved_part1"
    /\ UNCHANGED <<ret_mul, ret_enabled_mul, ret_sum_enabled, validVars, textVars,
                   day01Vars, day02Vars, day03Vars, day04Vars, loopVars>>

Day03CallSolvePart2 ==
    /\ pc = "day03_solved_part1"
    /\ \E overflow_checks \in BOOLEAN :
           ret_sum_enabled' = day03_solve_part2(input, overflow_checks)
    /\ pc' = "day03_solved"
    /\ UNCHANGED <<ret_mul, ret_enabled_mul, ret_sum, validVars, textVars,
                   day01Vars, day02Vars, day03Vars, day04Vars, loopVars>>

NextDay03Solve ==
    \/ CallExtractMulInstructions
    \/ CallExtractEnabledMulInstructions
    \/ Day03CallSolvePart1
    \/ Day03CallSolvePart2

SpecDay03Solve == InitDay03Solve /\ [][NextDay03Solve]_vars

\* a is b with some of its elements left out, the rest in their order
RECURSIVE IsSubList(_, _)
IsSubList(a, b) ==
    IF a = <<>> THEN TRUE
    ELSE IF b = <<>> THEN FALSE
    ELSE IF Head(a) = Head(b) THEN IsSubList(Tail(a), Tail(b))
    ELSE IsSubList(a, Tail(b))

HasDont(text) ==
    \E i \in 1..Len(text) : literal_at(text, i, <<"d", "o", "n", "'", "t", "(", ")">>)

\* C29: for every input the list returned by
\* extract_enabled_mul_instructions is an order-preserving sub-list of the
\* list returned by extract_mul_instructions, the two are equal when the
\* input contains no don't(), and hence solve_part2(input) <=
\* solve_part1(input).
C29_EnabledSubList ==
    /\ (pc \in {"day03_extracted_enabled", "day03_solved_part1", "day03_solved"}) =>
           /\ IsOk(ret_enabled_mul) =>
                  /\ IsOk(ret_mul)
                  /\ IsSubList(ret_enabled_mul.val, ret_mul.val)
           /\ ~HasDont(input) => (ret_enabled_mul = ret_mul)
    /\ (pc = "day03_solved" /\ IsOk(ret_sum_enabled)) =>
           /\ IsOk(ret_sum)
           /\ ret_sum_enabled.val <= ret_sum.val

-----------------------------------------------------------------------------
(* Day 4, "Ceres Search" (src/day04/src/lib.rs): check_direction and         *)
(* is_xmas_pattern over a grid of characters.  A grid is a sequence of rows, *)
(* a row a sequence of one-character strings; Rust cell (row, col) is        *)
(* grid[row + 1][col + 1].                                                   *)

MaxGridDim == 4

(* usize and isize have 64 bits, more than a number of TLC holds.  A value   *)
(* of either type is written as its four words of 16 bits, the highest      *)
(* first; an isize is in two's complement, so that `as isize` and           *)
(* `as usize` leave the four words as they are.                             *)

\* The words of the number n (a usize when n >= 0, an isize in any case)
words(n) ==
    <<IF n < 0 THEN 65535 ELSE 0, IF n < 0 THEN 65535 ELSE 0,
      (n \div 65536) % 65536, n % 65536>>

\* isize::MAX, 2^63 - 1
ISIZE_MAX == <<32767, 65535, 65535, 65535>>

\* isize::MIN, -2^63; as a usize the same words are 2^63
ISIZE_MIN == <<32768, 0, 0, 0>>

\* usize::MAX, 2^64 - 1; as an isize the same words are -1
USIZE_MAX == <<65535, 65535, 65535, 65535>>

\* An isize below zero
is_negative(a) == a[1] >= 32768

\* The sum modulo 2^64
wrapping_add(a, b) ==
    LET s4 == a[4] + b[4]
        s3 == a[3] + b[3] + (s4 \div 65536)
        s2 == a[2] + b[2] + (s3 \div 65536)
        s1 == a[1] + b[1] + (s2 \div 65536)
    IN  <<s1 % 65536, s2 % 65536, s3 % 65536, s4 % 65536>>

\* isize + isize: a sum outside isize panics in a build with overflow checks
\* and wraps in one without
isize_add(a, b, overflow_checks) ==
    LET sum == wrapping_add(a, b)
    IN  IF is_negative(a) = is_negative(b) /\ is_negative(sum) # is_negative(a)
        THEN IF overflow_checks
             THEN Panic("attempt to add with overflow")
             ELSE Ok(sum)
        ELSE Ok(sum)

\* `i as isize * delta` for an index i of the enumeration: delta added i
\* times, the product being outside isize exactly when one of these sums is
RECURSIVE isize_mul(_, _, _)
isize_mul(i, delta, overflow_checks) ==
    IF i = 0
    THEN Ok(words(0))
    ELSE LET rest == isize_mul(i - 1, delta, overflow_checks)
         IN  IF IsPanic(rest)
             THEN rest
             ELSE IF IsPanic(isize_add(rest.val, delta, TRUE))
             THEN IF overflow_checks
                  THEN Panic("attempt to multiply with overflow")
                  ELSE Ok(wrapping_add(rest.val, delta))
             ELSE Ok(wrapping_add(rest.val, delta))

\* usize >= len, len the length of a grid or of a row
usize_ge(a, len) ==
    \/ a[1] > 0
    \/ a[2] > 0
    \/ a[3] >= 32768
    \/ (a[3] * 65536) + a[4] >= len

\* The number of a usize that is below the length of a grid or of a row
as_index(a) == (a[3] * 65536) + a[4]

\* fn char_matches_at: false outside the grid, else the comparison
char_matches_at(g, row, col, expected) ==
    IF is_negative(row) \/ is_negative(col)
    THEN FALSE
    ELSE IF usize_ge(row, Len(g))
    THEN FALSE
    ELSE IF usize_ge(col, Len(g[as_index(row) + 1]))
    THEN FALSE
    ELSE g[as_index(row) + 1][as_index(col) + 1] = expected

XMAS_CHARS == <<"X", "M", "A", "S">>

\* chars.iter().enumerate().all(..): the closure on items i.. of the
\* enumeration, stopping at the first false; the row is computed before the
\* column, the product before the sum (r, c, dr, dc: start_row, start_col,
\* row_delta, col_delta)
RECURSIVE check_direction_from(_, _, _, _, _, _, _, _)
check_direction_from(g, r, c, dr, dc, chars, i, overflow_checks) ==
    IF i >= Len(chars)
    THEN Ok(TRUE)
    ELSE LET target_char == chars[i + 1]
             row_step == isize_mul(i, dr, overflow_checks)
             target_row == isize_add(r, row_step.val, overflow_checks)
             col_step == isize_mul(i, dc, overflow_checks)
             target_col == isize_add(c, col_step.val, overflow_checks)
         IN  IF IsPanic(row_step)
             THEN row_step
             ELSE IF IsPanic(target_row)
             THEN target_row
             ELSE IF IsPanic(col_step)
             THEN col_step
             ELSE IF IsPanic(target_col)
             THEN target_col
             ELSE IF char_matches_at(g, target_row.val, target_col.val, target_char)
             THEN check_direction_from(g, r, c, dr,
                                       dc, chars, i + 1, overflow_checks)
             ELSE Ok(FALSE)

\* Mutant of check_direction: the last character of the word is not compared.
check_direction_three(g, r, c, dr, dc, overflow_checks) ==
    check_direction_from(g, r, c, dr, dc,
                         SubSeq(XMAS_CHARS, 1, 3), 0, overflow_checks)

check_direction(g, r, c, dr, dc, overflow_checks) ==
    check_direction_from(g, r, c, dr, dc,
                         XMAS_CHARS, 0, overflow_checks)

MAS_PATTERN == <<"M", "A", "S">>

SAM_PATTERN == <<"S", "A", "M">>

diagonal_directions == << <<1, 1>>, <<1, -1>> >>

patterns == <<MAS_PATTERN, SAM_PATTERN>>

\* pattern.iter().enumerate().all(..) for one pattern on one diagonal, the
\* closure on items i.. of the enumeration; relative_pos is -1, 0 or 1 and
\* its product with a delta of the diagonal is inside isize
RECURSIVE pattern_matches_from(_, _, _, _, _, _, _)
pattern_matches_from(g, center_row_signed, center_col_signed, direction, pattern, i, overflow_checks) ==
    IF i >= Len(pattern)
    THEN Ok(TRUE)
    ELSE LET relative_pos == i - 1
             row == isize_add(center_row_signed,
                              words(relative_pos * direction[1]), overflow_checks)
             col == isize_add(center_col_signed,
                              words(relative_pos * direction[2]), overflow_checks)
         IN  IF IsPanic(row)
             THEN row
             ELSE IF IsPanic(col)
             THEN col
             ELSE IF char_matches_at(g, row.val, col.val, pattern[i + 1])
             THEN pattern_matches_from(g, center_row_signed, center_col_signed,
                                       direction, pattern, i + 1, overflow_checks)
             ELSE Ok(FALSE)

pattern_matches(g, center_row_signed, center_col_signed, direction, pattern, overflow_checks) ==
    pattern_matches_from(g, center_row_signed, center_col_signed, direction,
                         pattern, 0, overflow_checks)

\* patterns.iter().any(..) on one diagonal, from pattern p on, stopping at
\* the first true
RECURSIVE any_pattern_from(_, _, _, _, _, _)
any_pattern_from(g, center_row_signed, center_col_signed, direction, p, overflow_checks) ==
    IF p > Len(patterns)
    THEN Ok(FALSE)
    ELSE LET matched == pattern_matches(g, center_row_signed, center_col_signed,
                                        direction, patterns[p], overflow_checks)
         IN  IF IsPanic(matched)
             THEN matched
             ELSE IF matched.val
             THEN Ok(TRUE)
             ELSE any_pattern_from(g, center_row_signed, center_col_signed,
                                   direction, p + 1, overflow_checks)

\* diagonal_directions.iter().all(..), from diagonal d on, stopping at the
\* first false
RECURSIVE all_directions_from(_, _, _, _, _)
all_directions_from(g, center_row_signed, center_col_signed, d, overflow_checks) ==
    IF d > Len(diagonal_directions)
    THEN Ok(TRUE)
    ELSE LET found == any_pattern_from(g, center_row_signed, center_col_signed,
                                       diagonal_directions[d], 1, overflow_checks)
         IN  IF IsPanic(found)
             THEN found
             ELSE IF found.val
             THEN all_directions_from(g, center_row_signed, center_col_signed,
                                      d + 1, overflow_checks)
             ELSE Ok(FALSE)

is_xmas_pattern(g, center_row, center_col, overflow_checks) ==
    LET center_row_signed == center_row
        center_col_signed == center_col
    IN  all_directions_from(g, center_row_signed, center_col_signed, 1,
                            overflow_checks)

-----------------------------------------------------------------------------
(* Grids of Day 4: blank rectangles of up to MaxGridDim rows and columns,   *)
(* the full square with one row cut short, and a word or a cross written    *)
(* on them (the letters that fall outside a grid are dropped).              *)

Blank(r, c) == [i \in 1..r |-> [j \in 1..c |-> "."]]

Shortened(g, i, n) == [g EXCEPT ![i] = SubSeq(@, 1, n)]

Shapes ==
    {Blank(r, c) : r \in 0..MaxGridDim, c \in 0..MaxGridDim}
    \cup {Shortened(Blank(MaxGridDim, MaxGridDim), i, n) :
              i \in 1..MaxGridDim, n \in 0..(MaxGridDim - 1)}

\* Grid g with written[<<row, col>>] in place of its cell (row, col)
Written(g, written) ==
    [i \in DOMAIN g |->
        [j \in DOMAIN g[i] |->
            IF <<i - 1, j - 1>> \in DOMAIN written
            THEN written[<<i - 1, j - 1>>]
            ELSE g[i][j]]]

WordCells(r, c, dr, dc, word) ==
    [cell \in {<<r + (k * dr), c + (k * dc)>> : k \in 0..(Len(word) - 1)} |->
        word[(CHOOSE k \in 0..(Len(word) - 1) :
                  cell = <<r + (k * dr), c + (k * dc)>>) + 1]]

Deltas == {-1, 0, 1}

Corners == {0, MaxGridDim - 1}

Words == {<<"X", "M", "A", "S">>, <<"X", "M", "A", "X">>}

WordGrids ==
    {Written(g, WordCells(r, c, dr, dc, w)) :
        g \in Shapes, r \in Corners, c \in Corners,
        dr \in Deltas, dc \in Deltas, w \in Words}

CrossCells(r, c, center, ul, ur, dl, dr) ==
    (<<r, c>> :> center) @@ (<<r - 1, c - 1>> :> ul) @@ (<<r - 1, c + 1>> :> ur)
    @@ (<<r + 1, c - 1>> :> dl) @@ (<<r + 1, c + 1>> :> dr)

Centers == {1, MaxGridDim - 2}

CrossGrids ==
    {Written(g, CrossCells(r, c, center, ul, ur, dl, dr)) :
        g \in {Blank(n, n) : n \in 2..MaxGridDim}
              \cup {Shortened(Blank(MaxGridDim, MaxGridDim), i, n) :
                        i \in 1..MaxGridDim, n \in 0..(MaxGridDim - 1)},
        r \in Centers, c \in Centers, center \in {"A", "M"},
        ul \in {"M", "S"}, ur \in {"M", "S"},
        dl \in {"M", "S"}, dr \in {"M", "S"}}

Starts == 0..(MaxGridDim - 1)

\* Cells and deltas at the ends of usize and isize, on three small grids: the
\* empty grid, one with an 'X' at cell (1, 1) and one with a cross at (1, 1)
EdgeGrids ==
    {<<>>,
     Written(Blank(2, 2), (<<1, 1>> :> "X")),
     Written(Blank(3, 3), CrossCells(1, 1, "A", "M", "S", "M", "S"))}

EdgeCells == {words(1), ISIZE_MAX, ISIZE_MIN, USIZE_MAX}

EdgeDeltas == {words(-1), words(1), ISIZE_MAX, ISIZE_MIN}

InitDay04 ==
    /\ pc = "day04_start"
    /\ \/ /\ grid \in WordGrids
          /\ row_delta \in {words(d) : d \in Deltas}
          /\ col_delta \in {words(d) : d \in Deltas}
          /\ start_row \in {words(n) : n \in Starts}
          /\ start_col \in {words(n) : n \in Starts}
       \/ /\ grid \in CrossGrids
          /\ row_delta = words(0)
          /\ col_delta = words(0)
          /\ start_row \in {words(n) : n \in Starts}
          /\ start_col \in {words(n) : n \in Starts}
       \/ /\ grid \in EdgeGrids
          /\ row_delta \in EdgeDeltas
          /\ col_delta \in EdgeDeltas
          /\ start_row \in EdgeCells
          /\ start_col \in EdgeCells
    /\ ret_check = Unset
    /\ ret_xmas = Unset
    /\ input = <<>>
    /\ Day01Idle
    /\ Day02Idle
    /\ Day03Idle
    /\ Day03SolveIdle
    /\ Day05Idle
    /\ LoopIdle

CallCheckDirection ==
    /\ pc = "day04_start"
    /\ \E overflow_checks \in BOOLEAN :
           ret_check' = check_direction(grid, start_row, start_col, row_delta,
                                        col_delta, overflow_checks)
    /\ pc' = "day04_checked"
    /\ UNCHANGED <<grid, start_row, start_col, row_delta, col_delta, ret_xmas>>
    /\ UNCHANGED <<validVars, textVars, day01Vars, day02Vars, day03Vars,
                   day03SolveVars, loopVars>>

CallIsXmasPattern ==
    /\ pc = "day04_checked"
    /\ \E overflow_checks \in BOOLEAN :
           ret_xmas' = is_xmas_pattern(grid, start_row, start_col, overflow_checks)
    /\ pc' = "day04_done"
    /\ UNCHANGED <<grid, start_row, start_col, row_delta, col_delta, ret_check>>
    /\ UNCHANGED <<validVars, textVars, day01Vars, day02Vars, day03Vars,
                   day03SolveVars, loopVars>>

NextDay04 ==
    \/ CallCheckDirection
    \/ CallIsXmasPattern

SpecDay04 == InitDay04 /\ [][NextDay04]_vars

-----------------------------------------------------------------------------
(* Claims about Day 4 *)

InGrid(g, row, col) ==
    /\ row \in 0..(Len(g) - 1)
    /\ col \in 0..(Len(g[row + 1]) - 1)

\* The cells start + i * delta, i = 0..3, lie inside the grid and hold the
\* letters X, M, A, S
SpellsXmas(g, r, c, dr, dc) ==
    \A i \in 0..3 :
        /\ InGrid(g, r + (i * dr), c + (i * dc))
        /\ g[r + (i * dr) + 1][c + (i * dc) + 1] = <<"X", "M", "A", "S">>[i + 1]

SomeCellOutside(g, r, c, dr, dc) ==
    \E i \in 0..3 : ~InGrid(g, r + (i * dr), c + (i * dc))

Ragged(g) == \E i, j \in DOMAIN g : Len(g[i]) # Len(g[j])

\* A row or column number below 2^16; every other one is beyond the last row
\* and the last column of every grid
Small(a) == a[1] = 0 /\ a[2] = 0 /\ a[3] = 0

SmallDeltas == {words(d) : d \in Deltas}

DeltaOf(a) == CHOOSE d \in Deltas : words(d) = a

\* C21: for every grid (empty grids and grids with rows of different lengths
\* among them), start cell and direction delta in {-1,0,1} x {-1,0,1},
\* check_direction returns true exactly when the four cells
\* start + i * delta, i = 0..3, all lie inside the grid and spell X, M, A, S;
\* when one of the cells lies outside the grid it returns false (it returns
\* a boolean: no panic, no index used outside the grid), whatever the build
\* and however far from the grid the start cell is.
C21_CheckDirectionIffSpells ==
    (/\ pc \in {"day04_checked", "day04_done"}
     /\ row_delta \in SmallDeltas
     /\ col_delta \in SmallDeltas) =>
        LET inside == Small(start_row) /\ Small(start_col)
            r == as_index(start_row)
            c == as_index(start_col)
            dr == DeltaOf(row_delta)
            dc == DeltaOf(col_delta)
        IN  /\ ret_check = Ok(inside /\ SpellsXmas(grid, r, c, dr, dc))
            /\ (~inside \/ SomeCellOutside(grid, r, c, dr, dc))
                   => (ret_check = Ok(FALSE))

\* C21 witness: check_direction has returned true along a diagonal of a grid
\* whose rows differ in length.
C21_Witness ==
    /\ pc = "day04_checked"
    /\ ret_check = Ok(TRUE)
    /\ row_delta \in SmallDeltas \ {words(0)}
    /\ col_delta \in SmallDeltas \ {words(0)}
    /\ Ragged(grid)

\* The cells a and b lie inside the grid and hold 'M' and 'S' in either order
MasOrSam(g, a, b) ==
    /\ InGrid(g, a[1], a[2])
    /\ InGrid(g, b[1], b[2])
    /\ {g[a[1] + 1][a[2] + 1], g[b[1] + 1][b[2] + 1]} = {"M", "S"}

XmasAt(g, r, c) ==
    /\ InGrid(g, r, c)
    /\ g[r + 1][c + 1] = "A"
    /\ MasOrSam(g, <<r - 1, c - 1>>, <<r + 1, c + 1>>)
    /\ MasOrSam(g, <<r - 1, c + 1>>, <<r + 1, c - 1>>)

\* The cell is the first or the last of its row or of its column of rows
OnBorder(g, r, c) ==
    /\ InGrid(g, r, c)
    /\ \/ r = 0
       \/ r = Len(g) - 1
       \/ c = 0
       \/ c = Len(g[r + 1]) - 1

\* C22: is_xmas_pattern(grid, r, c) is true exactly when the cell is 'A' and
\* each diagonal holds 'M' and 'S' in either order at its two corners, all
\* inside the grid (so it returns false for every other r and c), and it is
\* false for every cell on the border of the grid.
C22_FalseOnBorder ==
    (pc = "day04_done") =>
        LET inside == Small(start_row) /\ Small(start_col)
            r == as_index(start_row)
            c == as_index(start_col)
        IN  /\ ret_xmas = Ok(inside /\ XmasAt(grid, r, c))
            /\ (inside /\ OnBorder(grid, r, c)) => (ret_xmas = Ok(FALSE))

-----------------------------------------------------------------------------
(* is_valid_sequence, step by step: one step per iteration of the for loop  *)
(* that builds the maps, then one step per rule that `all` goes through.    *)

MaxLoopLen == 3
MaxLoopRules == 2

LoopPages == {1, 2}

InitLoop ==
    /\ pc = "loop_start"
    /\ sequence \in SeqsUpTo(LoopPages, MaxLoopLen)
    /\ rules \in SeqsUpTo(LoopPages \X LoopPages, MaxLoopRules)
    /\ ret_valid = FALSE
    /\ ret_naive = FALSE
    /\ ret_middle = Unset
    /\ input = <<>>
    /\ ret_parse = Unset
    /\ ret_solve = Unset
    /\ ret_solve_naive = Unset
    /\ Day01Idle
    /\ Day02Idle
    /\ Day03Idle
    /\ Day03SolveIdle
    /\ Day04Idle
    /\ LoopIdle

\* let mut first_pos = FxHashMap::default(); let mut last_pos = ..
EnterIsValidSequence ==
    /\ pc = "loop_start"
    /\ loop_first_pos' = EmptyMap
    /\ loop_last_pos' = EmptyMap
    /\ loop_i' = 0
    /\ rule_i' = 0
    /\ steps' = 0
    /\ pc' = "loop_build"
    /\ UNCHANGED <<ret_loop, validVars, textVars, day01Vars, day02Vars, day03Vars,
                   day03SolveVars, day04Vars>>

\* Mutant of InsertPage: first_pos.insert(page, i) in place of or_insert.
InsertPageOverwrite ==
    /\ pc = "loop_build"
    /\ loop_i < Len(sequence)
    /\ LET page == sequence[loop_i + 1]
       IN  /\ loop_first_pos' = (page :> loop_i) @@ loop_first_pos
           /\ loop_last_pos' = (page :> loop_i) @@ loop_last_pos
    /\ loop_i' = loop_i + 1
    /\ steps' = steps + 1
    /\ UNCHANGED <<pc, rule_i, ret_loop, validVars, textVars, day01Vars, day02Vars,
                   day03Vars, day03SolveVars, day04Vars>>

\* for (i, &page) in sequence.iter().enumerate() { first_pos.entry(page)
\* .or_insert(i); last_pos.insert(page, i); }
InsertPage ==
    /\ pc = "loop_build"
    /\ loop_i < Len(sequence)
    /\ LET page == sequence[loop_i + 1]
       IN  /\ loop_first_pos' = IF page \in DOMAIN loop_first_pos
                                THEN loop_first_pos
                                ELSE (page :> loop_i) @@ loop_first_pos
           /\ loop_last_pos' = (page :> loop_i) @@ loop_last_pos
    /\ loop_i' = loop_i + 1
    /\ steps' = steps + 1
    /\ UNCHANGED <<pc, rule_i, ret_loop, validVars, textVars, day01Vars, day02Vars,
                   day03Vars, day03SolveVars, day04Vars>>

\* The for loop has gone through the sequence: rules.iter().all(..) starts
EndOfSequence ==
    /\ pc = "loop_build"
    /\ loop_i = Len(sequence)
    /\ pc' = "loop_rules"
    /\ UNCHANGED <<loop_first_pos, loop_last_pos, loop_i, rule_i, steps, ret_loop,
                   validVars, textVars, day01Vars, day02Vars, day03Vars,
                   day03SolveVars, day04Vars>>

\* Mutant of CheckRule: the rule is checked by a scan of the sequence.
CheckRuleByScan ==
    /\ pc = "loop_rules"
    /\ rule_i < Len(rules)
    /\ rule_i' = rule_i + 1
    /\ steps' = steps + Len(sequence)
    /\ IF rule_holds(loop_first_pos, loop_last_pos, rules[rule_i + 1])
       THEN UNCHANGED <<pc, ret_loop>>
       ELSE /\ ret_loop' = FALSE
            /\ pc' = "loop_done"
    /\ UNCHANGED <<loop_first_pos, loop_last_pos, loop_i, validVars, textVars,
                   day01Vars, day02Vars, day03Vars, day03SolveVars, day04Vars>>

\* The closure of rules.iter().all(..) on the next rule: two lookups and one
\* comparison; `all` returns false at the first rule that does not hold
CheckRule ==
    /\ pc = "loop_rules"
    /\ rule_i < Len(rules)
    /\ rule_i' = rule_i + 1
    /\ steps' = steps + 1
    /\ IF rule_holds(loop_first_pos, loop_last_pos, rules[rule_i + 1])
       THEN UNCHANGED <<pc, ret_loop>>
       ELSE /\ ret_loop' = FALSE
            /\ pc' = "loop_done"
    /\ UNCHANGED <<loop_first_pos, loop_last_pos, loop_i, validVars, textVars,
                   day01Vars, day02Vars, day03Vars, day03SolveVars, day04Vars>>

\* `all` has gone through every rule: true
ReturnValid ==
    /\ pc = "loop_rules"
    /\ rule_i = Len(rules)
    /\ ret_loop' = TRUE
    /\ pc' = "loop_done"
    /\ UNCHANGED <<loop_first_pos, loop_last_pos, loop_i, rule_i, steps,
                   validVars, textVars, day01Vars, day02Vars, day03Vars,
                   day03SolveVars, day04Vars>>

NextLoop ==
    \/ EnterIsValidSequence
    \/ InsertPage
    \/ EndOfSequence
    \/ CheckRule
    \/ ReturnValid

SpecLoop == InitLoop /\ [][NextLoop]_vars

-----------------------------------------------------------------------------
(* Claims about the steps of is_valid_sequence *)

InLoop == pc \in {"loop_build", "loop_rules", "loop_done"}

\* The Rust indices below k at which page p occurs in the sequence
IndicesOf(seq, p, k) == {i \in 0..(k - 1) : seq[i + 1] = p}

\* C23: after the map-building loop of is_valid_sequence has processed the
\* first k elements of the sequence, for every k from 0 to the length,
\* first_pos and last_pos have exactly the distinct pages of that prefix as
\* keys, first_pos[p] is the smallest and last_pos[p] the largest index of
\* p in the prefix, and first_pos[p] <= last_pos[p] < k.
C23_PositionMaps ==
    InLoop =>
        LET k == loop_i
            prefix_pages == {sequence[i] : i \in 1..k}
        IN  /\ k \in 0..Len(sequence)
            /\ DOMAIN loop_first_pos = prefix_pages
            /\ DOMAIN loop_last_pos = prefix_pages
            /\ \A p \in prefix_pages :
                   /\ loop_first_pos[p] \in IndicesOf(sequence, p, k)
                   /\ loop_last_pos[p] \in IndicesOf(sequence, p, k)
                   /\ \A i \in IndicesOf(sequence, p, k) :
                          loop_first_pos[p] <= i /\ i <= loop_last_pos[p]
                   /\ loop_first_pos[p] <= loop_last_pos[p]
                   /\ loop_last_pos[p] < k

\* C23 witness: the loop has processed three elements and has met one page
\* twice, with another page in between.
C23_Witness ==
    /\ pc = "loop_build"
    /\ loop_i = 3
    /\ \E p \in DOMAIN loop_first_pos :
           /\ loop_first_pos[p] = 0
           /\ loop_last_pos[p] = 2
    /\ Cardinality(DOMAIN loop_first_pos) = 2

\* C26: is_valid_sequence does one map-update step per sequence element and
\* at most one comparison per rule, so its number of steps is at most n + r
\* for a sequence of length n and r rules, whatever the number of repeated
\* pages.
C26_StepsAtMostNPlusR ==
    InLoop =>
        /\ steps = loop_i + rule_i
        /\ loop_i <= Len(sequence)
        /\ rule_i <= Len(rules)
        /\ steps <= Len(sequence) + Len(rules)
        /\ (pc = "loop_done" /\ ret_loop) => (steps = Len(sequence) + Len(rules))

\* C26 witness: a call has returned false before the last rule, after a
\* sequence in which a page repeats.
C26_Witness ==
    /\ pc = "loop_done"
    /\ ret_loop = FALSE
    /\ steps < Len(sequence) + Len(rules)
    /\ Cardinality(DOMAIN loop_first_pos) < Len(sequence)

\* The elements of xs at the positions in S that are >= k, in their order
RECURSIVE Keep(_, _, _)
Keep(xs, S, k) ==
    IF k > Len(xs)
    THEN <<>>
    ELSE (IF k \in S THEN <<xs[k]>> ELSE <<>>) \o Keep(xs, S, k + 1)

\* C28: validity is closed under deletion: when is_valid_sequence(sequence,
\* rules) is true, it is also true for every sequence obtained by deleting
\* any elements of the sequence (keeping the order of the rest) and for
\* every sub-list of the rules.
C28_ClosedUnderDeletion ==
    (pc = "loop_done") =>
        /\ ret_loop = is_valid_sequence(sequence, rules)
        /\ ret_loop =>
               \A S \in SUBSET (1..Len(sequence)) :
                   \A R \in SUBSET (1..Len(rules)) :
                       is_valid_sequence(Keep(sequence, S, 1), Keep(rules, R, 1))

\* C28 witness: a call has returned true for a sequence of three elements
\* with a repeated page and two rules, one of them between two different
\* pages of the sequence.
C28_Witness ==
    /\ pc = "loop_done"
    /\ ret_loop = TRUE
    /\ Len(sequence) = 3
    /\ Len(rules) = 2
    /\ \E r \in 1..Len(rules) :
           /\ rules[r][1] # rules[r][2]
           /\ rules[r][1] \in DOMAIN loop_first_pos
           /\ rules[r][2] \in DOMAIN loop_first_pos

====
